---- MODULE Spec2Model ----
(***************************************************************************)
(* Market regime classification of Hyper-Alpha-Arena:                      *)
(*   backend/services/market_regime_service.py   (classifier)              *)
(*   backend/services/technical_indicators.py    (ATR14 / RSI14)           *)
(*   backend/api/market_regime_routes.py         (HTTP routes)             *)
(*   backend/database/migrations/create_market_regime_configs.py           *)
(*                                                                         *)
(* Numbers.  Python floats are modelled as fixed-point integers in         *)
(* thousandths ("milli"): 0.15 is 150, an RSI of 70.0 is 70000, a taker    *)
(* ratio of 33.0 is 33000.  Products and quotients of the code are         *)
(* compared after cross-multiplying, so that every comparison of the       *)
(* model is the exact rational comparison of the code's operands.  The     *)
(* confidence score is kept in units of 1e-5 (1.0 is 100000) because its   *)
(* weights 0.3/0.3, 0.2, 0.2/5 and 0.3/2 are whole numbers in that unit.   *)
(*                                                                         *)
(* Python values.  An Optional value is the record PyNone or PyNum(n).     *)
(* A dict is a function whose DOMAIN is the set of its keys.  A call that  *)
(* raises returns Raised(exception name).                                  *)
(***************************************************************************)
EXTENDS Integers, Sequences, FiniteSets, TLC

VARIABLES
    configs,    \* table market_regime_configs: a set of rows
    klines,     \* table crypto_klines: a set of rows (timestamp in seconds)
    flow,       \* what the flow-indicator source holds: a set of samples (timestamp in ms)
    market,     \* the raw market tables the signal analyzer reads (timestamp in ms)
    input,      \* the arguments of the call under study
    result      \* what the last call returned (or that it raised)

vars == <<configs, klines, flow, market, input, result>>

-----------------------------------------------------------------------------
(* Python helpers *)

Abs(x) == IF x < 0 THEN 0 - x ELSE x
Min(a, b) == IF a < b THEN a ELSE b
Max(a, b) == IF a > b THEN a ELSE b

PyNone == [none |-> TRUE, v |-> 0]
PyNum(n) == [none |-> FALSE, v |-> n]

\* Python's round(x, 3) of a value held in units of 1e-5: to the nearest
\* thousandth, ties to the even one.
round3(x) ==
    LET q == x \div 100
        r == x % 100
    IN  IF r > 50 THEN q + 1
        ELSE IF r < 50 THEN q
        ELSE IF q % 2 = 0 THEN q ELSE q + 1

\* 1000 * ln(n), rounded, for the whole numbers n the model takes logarithms of.
ln1000(n) ==
    CASE n = 30 -> 3401
      [] n = 100 -> 4605
      [] n = 390 -> 5966
      [] n = 400 -> 5991
      [] n = 500 -> 6215
      [] n = 550 -> 6310
      [] n = 600 -> 6397
      [] n = 610 -> 6413
      [] n = 1000 -> 6908
      [] n = 1800 -> 7496
      [] n = 3300 -> 8102
      [] n = 33000 -> 10404

\* The logarithm of the inverse quotient.
math_log_swapped(num, den) == ln1000(den) - ln1000(num)

\* math.log(num / den) in milli, num > 0 and den > 0.
math_log(num, den) == ln1000(num) - ln1000(den)

-----------------------------------------------------------------------------
(* market_regime_service.py: constants *)

REGIME_STOP_HUNT == "stop_hunt"
REGIME_ABSORPTION == "absorption"
REGIME_BREAKOUT == "breakout"
REGIME_CONTINUATION == "continuation"
REGIME_EXHAUSTION == "exhaustion"
REGIME_TRAP == "trap"
REGIME_NOISE == "noise"

DIRECTION_BULLISH == "bullish"
DIRECTION_BEARISH == "bearish"
DIRECTION_NEUTRAL == "neutral"

Regimes ==
    {REGIME_STOP_HUNT, REGIME_ABSORPTION, REGIME_BREAKOUT, REGIME_CONTINUATION,
     REGIME_EXHAUSTION, REGIME_TRAP, REGIME_NOISE}

-----------------------------------------------------------------------------
(* market_regime_service.py: calculate_direction *)

calculate_direction_novote(cvd_ratio, taker_log_ratio, price_atr) ==
    LET votes == (IF cvd_ratio > 0 THEN 1 ELSE IF cvd_ratio < 0 THEN 0 - 1 ELSE 0)
               + (IF taker_log_ratio > 0 THEN 1 ELSE IF taker_log_ratio < 0 THEN 0 - 1 ELSE 0)
               + (IF price_atr > 0 THEN 1 ELSE IF price_atr < 0 THEN 0 - 1 ELSE 0)
    IN  IF votes >= 1 THEN DIRECTION_BULLISH
        ELSE IF votes <= 0 - 2 THEN DIRECTION_BEARISH
        ELSE DIRECTION_NEUTRAL

\* The vote read the wrong way round.
calculate_direction_inverted(cvd_ratio, taker_log_ratio, price_atr) ==
    LET v1 == IF cvd_ratio > 0 THEN 1 ELSE IF cvd_ratio < 0 THEN 0 - 1 ELSE 0
        v2 == IF taker_log_ratio > 0 THEN 1 ELSE IF taker_log_ratio < 0 THEN 0 - 1 ELSE 0
        v3 == IF price_atr > 0 THEN 1 ELSE IF price_atr < 0 THEN 0 - 1 ELSE 0
        votes == v1 + v2 + v3
    IN  IF votes >= 2 THEN DIRECTION_BEARISH
        ELSE IF votes <= 0 - 2 THEN DIRECTION_BULLISH
        ELSE DIRECTION_NEUTRAL

calculate_direction(cvd_ratio, taker_log_ratio, price_atr) ==
    LET v1 == IF cvd_ratio > 0 THEN 1 ELSE IF cvd_ratio < 0 THEN 0 - 1 ELSE 0
        v2 == IF taker_log_ratio > 0 THEN 1 ELSE IF taker_log_ratio < 0 THEN 0 - 1 ELSE 0
        v3 == IF price_atr > 0 THEN 1 ELSE IF price_atr < 0 THEN 0 - 1 ELSE 0
        votes == v1 + v2 + v3
    IN  IF votes >= 2 THEN DIRECTION_BULLISH
        ELSE IF votes <= 0 - 2 THEN DIRECTION_BEARISH
        ELSE DIRECTION_NEUTRAL

-----------------------------------------------------------------------------
(* market_regime_service.py: calculate_confidence (result in units of 1e-5) *)

calculate_confidence_uncapped(cvd_ratio, taker_log_ratio, oi_delta, price_atr) ==
    100 * Abs(cvd_ratio) + 20 * Abs(taker_log_ratio)
        + 4 * Abs(oi_delta) + 15 * Abs(price_atr)

calculate_confidence(cvd_ratio, taker_log_ratio, oi_delta, price_atr) ==
    LET score == 100 * Min(Abs(cvd_ratio), 300)
               + 20 * Min(Abs(taker_log_ratio), 1000)
               + 4 * Min(Abs(oi_delta), 5000)
               + 15 * Min(Abs(price_atr), 2000)
    IN  Max(0, Min(100000, score))

-----------------------------------------------------------------------------
(* market_regime_service.py: classify_regime *)

\* is_taker_extreme, lines 133-136: the thresholds are math.log of the config's
\* taker ratios, with the fall-backs 3.5 and -3.5 for a ratio that is not positive.
is_taker_extreme(taker_log_ratio, config) ==
    LET taker_high_log == IF config.breakout_taker_high > 0
                          THEN math_log(config.breakout_taker_high, 1000) ELSE 3500
        taker_low_log == IF config.breakout_taker_low > 0
                         THEN math_log(config.breakout_taker_low, 1000) ELSE 0 - 3500
    IN  taker_log_ratio > taker_high_log \/ taker_log_ratio < taker_low_log

\* cvd_price_aligned, line 139
cvd_price_aligned(cvd_ratio, price_atr) ==
    (cvd_ratio > 0 /\ price_atr > 0) \/ (cvd_ratio < 0 /\ price_atr < 0)

\* is_solid_move, lines 152-153: body_ratio = |price_atr| / price_range_atr when
\* the range is positive and 1.0 otherwise; solid when body_ratio > 0.4.
is_solid_move(price_atr, price_range_atr) ==
    IF price_range_atr > 0 THEN 10 * Abs(price_atr) > 4 * price_range_atr ELSE TRUE

classify_regime_trap_first(cvd_ratio, taker_log_ratio, oi_delta, price_atr, rsi, price_range_atr, config) ==
    LET cvd_strong == 3 * config.breakout_cvd_z
        cvd_weak == config.breakout_cvd_z
        price_breakout == config.breakout_price_atr + 200
        price_move == config.absorption_price_atr
        is_cvd_strong == 30 * Abs(cvd_ratio) > cvd_strong
        is_price_breakout == Abs(price_atr) > price_breakout
        is_oi_increase == oi_delta > config.breakout_oi_z
        is_oi_decrease == oi_delta < config.trap_oi_z
        rsi_extreme == rsi > config.exhaustion_rsi_high \/ rsi < config.exhaustion_rsi_low
        is_price_move == Abs(price_atr) > price_move
        is_cvd_weak == 30 * Abs(cvd_ratio) > cvd_weak
        side == IF cvd_ratio > 0 THEN "Bullish" ELSE "Bearish"
    IN  IF price_range_atr > config.stop_hunt_range_atr
           /\ Abs(price_atr) < config.stop_hunt_close_atr
        THEN [regime |-> REGIME_STOP_HUNT, reason |-> "Price spiked but closed near open"]
        ELSE IF is_cvd_strong /\ is_price_breakout
                /\ cvd_price_aligned(cvd_ratio, price_atr)
                /\ is_solid_move(price_atr, price_range_atr)
                /\ (is_taker_extreme(taker_log_ratio, config) \/ is_oi_increase)
        THEN [regime |-> REGIME_BREAKOUT, reason |-> side \o " breakout with aligned signals"]
        ELSE IF is_cvd_strong /\ is_oi_decrease
        THEN [regime |-> REGIME_TRAP, reason |-> "Strong flow but positions closing (trap)"]
        ELSE IF is_cvd_strong /\ is_oi_decrease /\ rsi_extreme
        THEN [regime |-> REGIME_EXHAUSTION, reason |-> "Trend exhaustion at RSI extreme"]
        ELSE IF is_cvd_strong /\ ~is_price_move
        THEN [regime |-> REGIME_ABSORPTION, reason |-> "Strong flow absorbed without price movement"]
        ELSE IF is_cvd_weak /\ is_price_move /\ cvd_price_aligned(cvd_ratio, price_atr)
        THEN [regime |-> REGIME_CONTINUATION, reason |-> side \o " trend continuation"]
        ELSE [regime |-> REGIME_NOISE, reason |-> "No clear market regime detected"]

classify_regime_breakout_first(cvd_ratio, taker_log_ratio, oi_delta, price_atr, rsi, price_range_atr, config) ==
    LET is_cvd_strong == 30 * Abs(cvd_ratio) > 3 * config.breakout_cvd_z
        is_price_breakout == Abs(price_atr) > config.breakout_price_atr + 200
        is_oi_increase == oi_delta > config.breakout_oi_z
        side == IF cvd_ratio > 0 THEN "Bullish" ELSE "Bearish"
    IN  IF is_cvd_strong /\ is_price_breakout
           /\ cvd_price_aligned(cvd_ratio, price_atr)
           /\ is_solid_move(price_atr, price_range_atr)
           /\ (is_taker_extreme(taker_log_ratio, config) \/ is_oi_increase)
        THEN [regime |-> REGIME_BREAKOUT, reason |-> side \o " breakout with aligned signals"]
        ELSE classify_regime_trap_first(cvd_ratio, taker_log_ratio, oi_delta, price_atr,
                                        rsi, price_range_atr, config)

\* Lines 125-182.  cvd_strong = breakout_cvd_z * 0.1 and cvd_weak = cvd_strong / 3
\* are held in units of 1/30000, so |cvd_ratio| is multiplied by 30 where it is
\* compared with them; price_breakout = breakout_price_atr + 0.2.
\* The absorption guard with a threshold of its own, absorption_cvd_z.
classify_regime_absorption_cvd(cvd_ratio, taker_log_ratio, oi_delta, price_atr, rsi, price_range_atr, config) ==
    LET cvd_strong == 3 * config.breakout_cvd_z
        cvd_weak == config.breakout_cvd_z
        price_breakout == config.breakout_price_atr + 200
        price_move == config.absorption_price_atr
        oi_increase == config.breakout_oi_z
        oi_decrease == config.trap_oi_z
        is_cvd_strong == 30 * Abs(cvd_ratio) > cvd_strong
        is_price_breakout == Abs(price_atr) > price_breakout
        is_oi_increase == oi_delta > oi_increase
        is_oi_decrease == oi_delta < oi_decrease
        rsi_extreme == rsi > config.exhaustion_rsi_high \/ rsi < config.exhaustion_rsi_low
        is_price_move == Abs(price_atr) > price_move
        is_cvd_weak == 30 * Abs(cvd_ratio) > cvd_weak
        side == IF cvd_ratio > 0 THEN "Bullish" ELSE "Bearish"
    IN  IF price_range_atr > config.stop_hunt_range_atr
           /\ Abs(price_atr) < config.stop_hunt_close_atr
        THEN [regime |-> REGIME_STOP_HUNT, reason |-> "Price spiked but closed near open"]
        ELSE IF is_cvd_strong /\ is_price_breakout
                /\ cvd_price_aligned(cvd_ratio, price_atr)
                /\ is_solid_move(price_atr, price_range_atr)
                /\ (is_taker_extreme(taker_log_ratio, config) \/ is_oi_increase)
        THEN [regime |-> REGIME_BREAKOUT, reason |-> side \o " breakout with aligned signals"]
        ELSE IF is_cvd_strong /\ is_oi_decrease /\ rsi_extreme
        THEN [regime |-> REGIME_EXHAUSTION, reason |-> "Trend exhaustion at RSI extreme"]
        ELSE IF is_cvd_strong /\ is_oi_decrease
        THEN [regime |-> REGIME_TRAP, reason |-> "Strong flow but positions closing (trap)"]
        ELSE IF 10 * Abs(cvd_ratio) > config.absorption_cvd_z /\ ~is_price_move
        THEN [regime |-> REGIME_ABSORPTION, reason |-> "Strong flow absorbed without price movement"]
        ELSE IF is_cvd_weak /\ is_price_move /\ cvd_price_aligned(cvd_ratio, price_atr)
        THEN [regime |-> REGIME_CONTINUATION, reason |-> side \o " trend continuation"]
        ELSE [regime |-> REGIME_NOISE, reason |-> "No clear market regime detected"]

classify_regime(cvd_ratio, taker_log_ratio, oi_delta, price_atr, rsi, price_range_atr, config) ==
    LET cvd_strong == 3 * config.breakout_cvd_z
        cvd_weak == config.breakout_cvd_z
        price_breakout == config.breakout_price_atr + 200
        price_move == config.absorption_price_atr
        oi_increase == config.breakout_oi_z
        oi_decrease == config.trap_oi_z
        is_cvd_strong == 30 * Abs(cvd_ratio) > cvd_strong
        is_price_breakout == Abs(price_atr) > price_breakout
        is_oi_increase == oi_delta > oi_increase
        is_oi_decrease == oi_delta < oi_decrease
        rsi_extreme == rsi > config.exhaustion_rsi_high \/ rsi < config.exhaustion_rsi_low
        is_price_move == Abs(price_atr) > price_move
        is_cvd_weak == 30 * Abs(cvd_ratio) > cvd_weak
        side == IF cvd_ratio > 0 THEN "Bullish" ELSE "Bearish"
    IN  IF price_range_atr > config.stop_hunt_range_atr
           /\ Abs(price_atr) < config.stop_hunt_close_atr
        THEN [regime |-> REGIME_STOP_HUNT, reason |-> "Price spiked but closed near open"]
        ELSE IF is_cvd_strong /\ is_price_breakout
                /\ cvd_price_aligned(cvd_ratio, price_atr)
                /\ is_solid_move(price_atr, price_range_atr)
                /\ (is_taker_extreme(taker_log_ratio, config) \/ is_oi_increase)
        THEN [regime |-> REGIME_BREAKOUT, reason |-> side \o " breakout with aligned signals"]
        ELSE IF is_cvd_strong /\ is_oi_decrease /\ rsi_extreme
        THEN [regime |-> REGIME_EXHAUSTION, reason |-> "Trend exhaustion at RSI extreme"]
        ELSE IF is_cvd_strong /\ is_oi_decrease
        THEN [regime |-> REGIME_TRAP, reason |-> "Strong flow but positions closing (trap)"]
        ELSE IF is_cvd_strong /\ ~is_price_move
        THEN [regime |-> REGIME_ABSORPTION, reason |-> "Strong flow absorbed without price movement"]
        ELSE IF is_cvd_weak /\ is_price_move /\ cvd_price_aligned(cvd_ratio, price_atr)
        THEN [regime |-> REGIME_CONTINUATION, reason |-> side \o " trend continuation"]
        ELSE [regime |-> REGIME_NOISE, reason |-> "No clear market regime detected"]

-----------------------------------------------------------------------------
(* Rows of market_regime_configs.  Threshold columns are in milli. *)

\* The row the migration inserts (create_market_regime_configs.py, lines 104-121).
InsertedDefaultConfig ==
    [id |-> 1, name |-> "Default", is_default |-> TRUE, rolling_window |-> 48,
     breakout_cvd_z |-> 1500, breakout_oi_z |-> 300, breakout_price_atr |-> 300,
     breakout_taker_high |-> 1800, breakout_taker_low |-> 550,
     absorption_cvd_z |-> 1500, absorption_price_atr |-> 300,
     trap_cvd_z |-> 1000, trap_oi_z |-> 0 - 1000,
     exhaustion_cvd_z |-> 1000, exhaustion_rsi_high |-> 70000, exhaustion_rsi_low |-> 30000,
     stop_hunt_range_atr |-> 1000, stop_hunt_close_atr |-> 300, noise_cvd_z |-> 500]

\* The default row after a later run of the migration rewrote the old defaults
\* (lines 43-65): breakout_oi_z 0.1, trap_oi_z -0.5, taker thresholds 33 / 0.03.
UpgradedDefaultConfig ==
    [InsertedDefaultConfig EXCEPT !.breakout_oi_z = 100, !.trap_oi_z = 0 - 500,
                                  !.breakout_taker_high = 33000, !.breakout_taker_low = 30]

\* A row an operator has edited through update_regime_config: a wide stop-hunt
\* band, a lower flow threshold and taker ratios that are not positive.
TunedConfig ==
    [InsertedDefaultConfig EXCEPT !.id = 2, !.name = "Tuned", !.is_default = FALSE,
                                  !.breakout_cvd_z = 600, !.stop_hunt_close_atr = 1000,
                                  !.breakout_taker_high = 0, !.breakout_taker_low = 0 - 1000,
                                  !.absorption_price_atr = 400]

ConfigRows == {InsertedDefaultConfig, UpgradedDefaultConfig, TunedConfig}

-----------------------------------------------------------------------------
(* Python dicts and the flow-indicator results *)

dict_get(d, k, default) == IF k \in DOMAIN d THEN d[k] ELSE default

\* An entry of flow_data: None, or a dict of fields (each PyNum or PyNone).
EntryNone == [none |-> TRUE, d |-> <<>>]
EntryDict(d) == [none |-> FALSE, d |-> d]

\* flow_data.get(key): the entry, None when the key is absent.
flow_get(flow_data, key) == dict_get(flow_data, key, EntryNone)

\* Python truth of an entry: None and the empty dict are false.
truthy(entry) == ~entry.none /\ DOMAIN entry.d # {}

\* What get_flow_indicators_for_prompt hands back: it fails, or returns a mapping.
FlowFailure == [fails |-> TRUE, data |-> <<>>]
FlowData(d) == [fails |-> FALSE, data |-> d]

\* The keys of market_flow_indicators.TIMEFRAME_MS: the supported timeframes.
TIMEFRAME_MS == {"1m", "5m", "15m", "1h"}

\* get_flow_indicators_for_prompt(db, symbol, timeframe, indicators, timestamp_ms):
\* the answer of the latest sample of the symbol that is not after timestamp_ms,
\* the empty mapping when there is none.
get_flow_indicators_for_prompt(samples, symbol, timeframe, timestamp_ms) ==
    LET seen == {x \in samples : x.symbol = symbol /\ x.timestamp <= timestamp_ms}
    IN  IF seen = {} THEN FlowData(<<>>)
        ELSE (CHOOSE x \in seen : \A y \in seen : y.timestamp <= x.timestamp).answer

-----------------------------------------------------------------------------
(* technical_indicators.py: ATR14 and RSI14 over a chronological bar list *)

ATR_LENGTH == 14
RSI_LENGTH == 14

\* Quotient rounded toward zero.
Quot(a, b) == IF a >= 0 THEN a \div b ELSE 0 - ((0 - a) \div b)

RECURSIVE SumTo(_, _, _)
\* f[lo] + ... + f[hi]
SumTo(f, lo, hi) == IF lo > hi THEN 0 ELSE f[hi] + SumTo(f, lo, hi - 1)

\* True range of bar i >= 2 (bar 1 has no previous close: NaN).
true_range(bars, i) ==
    Max(bars[i].high - bars[i].low,
        Max(Abs(bars[i].high - bars[i - 1].close), Abs(bars[i].low - bars[i - 1].close)))

RECURSIVE rma(_, _, _)
\* Wilder's moving average of x[2..i] in thousandths of x's unit, defined from
\* i = length + 1 on: the mean of the first `length` values, then
\* (previous * (length - 1) + x[i]) / length.
rma(x, length, i) ==
    IF i = length + 1 THEN (1000 * SumTo(x, 2, i)) \div length
    ELSE ((length - 1) * rma(x, length, i - 1) + 1000 * x[i]) \div length

\* _calculate_atr: ta.atr(high, low, close, length).fillna(0).tolist(), in
\* thousandths of a price unit.
atr_series(tr, length) ==
    [i \in 1..Len(tr) |-> IF i <= length THEN 0 ELSE rma(tr, length, i)]

calculate_atr(bars, length) ==
    atr_series([i \in 1..Len(bars) |-> IF i = 1 THEN 0 ELSE true_range(bars, i)], length)

\* _calculate_rsi: ta.rsi(close, length).fillna(50).tolist(), in milli:
\* 100 * gain / (gain + loss) of the Wilder averages of the up and down moves
\* (to the hundredth), NaN (hence 50) where it is undefined.
rsi_of(g, l) == IF g + l = 0 THEN 50000 ELSE 10 * ((10000 * g) \div (g + l))

close_diff(bars, i) == bars[i].close - bars[i - 1].close

rsi_series(up, down, length) ==
    [i \in 1..Len(up) |->
        IF i <= length THEN 50000 ELSE rsi_of(rma(up, length, i), rma(down, length, i))]

calculate_rsi(bars, length) ==
    rsi_series([i \in 1..Len(bars) |-> IF i = 1 THEN 0 ELSE Max(close_diff(bars, i), 0)],
               [i \in 1..Len(bars) |-> IF i = 1 THEN 0 ELSE Max(0 - close_diff(bars, i), 0)],
               length)

\* calculate_indicators(kline_data, ["ATR14", "RSI14"]): {} for an empty list.
calculate_indicators(kline_data) ==
    IF Len(kline_data) = 0 THEN <<>>
    ELSE [ATR14 |-> calculate_atr(kline_data, ATR_LENGTH),
          RSI14 |-> calculate_rsi(kline_data, RSI_LENGTH)]

-----------------------------------------------------------------------------
(* market_regime_service.py: fetch_kline_data and calculate_price_metrics *)

MIN_BARS == 15
KLINE_LIMIT == 50

RECURSIVE SortedByTimestamp(_)
\* The rows of a set in ascending order of timestamp.
SortedByTimestamp(rows) ==
    IF rows = {} THEN <<>>
    ELSE LET last == CHOOSE r \in rows : \A q \in rows : q.timestamp <= r.timestamp
         IN  Append(SortedByTimestamp(rows \ {last}), last)

\* Lines 200-226.  `if current_time_ms:` is false for None and for 0, and only
\* otherwise are the rows after current_time_ms // 1000 left out.  The newest
\* `limit` rows are returned oldest first.
\* Lines 210 and 216-226: the newest `limit` rows, oldest first, as dicts.
newest_bars(all, limit) ==
    [i \in 1..Min(Len(all), limit) |->
        LET k == all[Len(all) - Min(Len(all), limit) + i]
        IN  [timestamp |-> k.timestamp, open |-> k.open_price, high |-> k.high_price,
             low |-> k.low_price, close |-> k.close_price]]

fetch_kline_data(rows, symbol, period, limit, current_time_ms) ==
    newest_bars(
        SortedByTimestamp(
            {k \in rows :
                /\ k.symbol = symbol /\ k.period = period
                /\ (~current_time_ms.none /\ current_time_ms.v # 0)
                       => k.timestamp <= current_time_ms.v \div 1000}),
        limit)

\* Lines 237-263.  atr is in thousandths of a price unit, so the quotients
\* (close - open) / atr and (high - low) / atr in milli are 10^6 * diff / atr.
\* values[-1] if values else default (lines 243-244).
last_or(values, default) == IF Len(values) > 0 THEN values[Len(values)] ELSE default

\* Lines 249-263.
price_ratios(kline_data, atr, rsi) ==
    IF atr > 0 /\ Len(kline_data) >= 1
    THEN [price_atr |-> Quot(1000000 * (kline_data[Len(kline_data)].close
                                        - kline_data[Len(kline_data)].open), atr),
          price_range_atr |-> Quot(1000000 * (kline_data[Len(kline_data)].high
                                              - kline_data[Len(kline_data)].low), atr),
          rsi |-> rsi]
    ELSE [price_atr |-> 0, price_range_atr |-> 0, rsi |-> rsi]

\* Lines 240-247.
indicator_metrics(kline_data, indicators) ==
    price_ratios(kline_data,
                 last_or(dict_get(indicators, "ATR14", <<>>), 0),
                 last_or(dict_get(indicators, "RSI14", <<>>), 50000))

metrics_from_indicators(kline_data) ==
    indicator_metrics(kline_data, calculate_indicators(kline_data))

calculate_price_metrics_rsi_zero(kline_data) ==
    IF Len(kline_data) < MIN_BARS
    THEN [price_atr |-> 0, price_range_atr |-> 0, rsi |-> 0]
    ELSE metrics_from_indicators(kline_data)

\* Lines 229-263.
calculate_price_metrics(kline_data) ==
    IF Len(kline_data) < MIN_BARS
    THEN [price_atr |-> 0, price_range_atr |-> 0, rsi |-> 50000]
    ELSE metrics_from_indicators(kline_data)

-----------------------------------------------------------------------------
(* market_regime_service.py: get_default_config and get_market_regime *)

\* What a call returns.  A call that raises returns Raised(exception).
Returned(regime, direction, confidence, reason, indicators) ==
    [raised |-> FALSE, exc |-> "", regime |-> regime, direction |-> direction,
     confidence |-> confidence, reason |-> reason, indicators |-> indicators]
Raised(exc) ==
    [raised |-> TRUE, exc |-> exc, regime |-> "", direction |-> "",
     confidence |-> 0, reason |-> "", indicators |-> <<>>]

\* Lines 49-53: the rows .first() may return; no row gives None (the empty set).
get_default_config(table) == {c \in table : c.is_default}

\* Lines 289-295: the config the call resolves, as the set {row} or {} for None.
\* `if config_id:` is false for None and for 0.
resolve_config(table, config_id) ==
    LET rows == IF ~config_id.none /\ config_id.v # 0
                THEN {c \in table : c.id = config_id.v}
                ELSE get_default_config(table)
    IN  IF rows = {} THEN {{}} ELSE {{c} : c \in rows}

\* The degraded result of lines 298-305, 309-316 and 333-340.
Degraded(reason) == Returned(REGIME_NOISE, DIRECTION_NEUTRAL, 0, reason, <<>>)

\* Lines 342-358: the indicator values taken from the flow entries.  `error` is
\* the exception the arithmetic raises on a None operand:
\* taker_buy + taker_sell, then cvd_current / total_notional (evaluated only
\* when total_notional > 0).  oi_delta is passed on as it is, None included.
extract_flow(cvd_data, taker_data, oi_delta_data) ==
    LET cvd_current == dict_get(cvd_data.d, "current", PyNum(0))
        taker_buy == dict_get(taker_data.d, "buy", PyNum(0))
        taker_sell == dict_get(taker_data.d, "sell", PyNum(0))
        total_notional == taker_buy.v + taker_sell.v
        positive == taker_buy.v > 0 /\ taker_sell.v > 0
    IN  [error |-> IF taker_buy.none \/ taker_sell.none THEN "TypeError"
                   ELSE IF total_notional > 0 /\ cvd_current.none THEN "TypeError"
                   ELSE "",
         cvd_ratio |-> IF total_notional > 0
                       THEN Quot(1000 * cvd_current.v, total_notional) ELSE 0,
         taker_log_ratio |-> IF positive THEN math_log(taker_buy.v, taker_sell.v) ELSE 0,
         \* math.exp(taker_log_ratio): buy / sell, and 1.0 for the log ratio 0.0
         taker_ratio |-> IF positive THEN Quot(1000 * taker_buy.v, taker_sell.v) ELSE 1000,
         oi_delta |-> IF truthy(oi_delta_data)
                      THEN dict_get(oi_delta_data.d, "current", PyNum(0)) ELSE PyNum(0)]

\* Lines 369-398: direction, confidence and the returned dict.
regime_result(classified, f, price_metrics) ==
    Returned(classified.regime,
             calculate_direction(f.cvd_ratio, f.taker_log_ratio, price_metrics.price_atr),
             round3(calculate_confidence(f.cvd_ratio, f.taker_log_ratio, f.oi_delta.v,
                                         price_metrics.price_atr)),
             classified.reason,
             [cvd_ratio |-> f.cvd_ratio, oi_delta |-> f.oi_delta.v,
              taker_ratio |-> f.taker_ratio, price_atr |-> price_metrics.price_atr,
              rsi |-> price_metrics.rsi])

\* Lines 363-398.  A None oi_delta raises TypeError: in classify_regime at
\* oi_delta > oi_increase or, after a stop_hunt return, at abs(oi_delta) in
\* calculate_confidence.
classify_metrics(cfg, f, price_metrics) ==
    IF f.oi_delta.none THEN Raised("TypeError")
    ELSE regime_result(classify_regime(f.cvd_ratio, f.taker_log_ratio, f.oi_delta.v,
                                       price_metrics.price_atr, price_metrics.rsi,
                                       price_metrics.price_range_atr, cfg),
                       f, price_metrics)

\* Lines 342-398: an arithmetic error on a None field, else the price metrics
\* of the bars fetched with limit=50 as of ts (lines 361-362) are classified.
classify_with(cfg, rows, symbol, timeframe, ts, f) ==
    IF f.error # "" THEN Raised(f.error)
    ELSE classify_metrics(cfg, f,
             calculate_price_metrics(
                 fetch_kline_data(rows, symbol, timeframe, KLINE_LIMIT, PyNum(ts))))

\* Lines 319-320.
resolve_time(timestamp_ms, now) == IF timestamp_ms.none THEN now ELSE timestamp_ms.v

regime_from_entries_no_checks(config, rows, symbol, timeframe, ts, fails, cvd_data, taker_data, oi_delta_data) ==
    IF config = {} THEN Raised("AttributeError")
    ELSE IF timeframe \notin TIMEFRAME_MS THEN Raised("KeyError")
    ELSE IF fails THEN Raised("UpstreamDataError")
    ELSE IF cvd_data.none \/ taker_data.none THEN Raised("AttributeError")
    ELSE classify_with(CHOOSE c \in config : TRUE, rows, symbol, timeframe, ts,
                       extract_flow(cvd_data, taker_data, oi_delta_data))

regime_from_flow_no_checks(config, rows, symbol, timeframe, ts, source) ==
    regime_from_entries_no_checks(config, rows, symbol, timeframe, ts, source.fails,
                                  flow_get(source.data, "CVD"),
                                  flow_get(source.data, "TAKER"),
                                  flow_get(source.data, "OI_DELTA"))

get_market_regime_no_checks(config, rows, samples, symbol, timeframe, timestamp_ms, now) ==
    regime_from_flow_no_checks(
        config, rows, symbol, timeframe, resolve_time(timestamp_ms, now),
        get_flow_indicators_for_prompt(samples, symbol, timeframe,
                                       resolve_time(timestamp_ms, now)))

\* Lines 297-316 and 331-398: the early returns and the classification.
regime_from_entries(config, rows, symbol, timeframe, ts, fails, cvd_data, taker_data, oi_delta_data) ==
    IF config = {} THEN Degraded("No regime config found")
    ELSE IF timeframe \notin TIMEFRAME_MS
    THEN Degraded("Unsupported timeframe: " \o timeframe)
    ELSE IF fails THEN Raised("UpstreamDataError")
    ELSE IF ~truthy(cvd_data) \/ ~truthy(taker_data)
    THEN Degraded("Insufficient market flow data")
    ELSE classify_with(CHOOSE c \in config : TRUE, rows, symbol, timeframe, ts,
                       extract_flow(cvd_data, taker_data, oi_delta_data))

\* Lines 327-329: the three entries of flow_data.
regime_from_flow(config, rows, symbol, timeframe, ts, source) ==
    regime_from_entries(config, rows, symbol, timeframe, ts, source.fails,
                        flow_get(source.data, "CVD"), flow_get(source.data, "TAKER"),
                        flow_get(source.data, "OI_DELTA"))

\* Lines 297-398, with the config already resolved (resolve_config).  `now` is
\* the clock reading used when no timestamp_ms is given.
get_market_regime(config, rows, samples, symbol, timeframe, timestamp_ms, now) ==
    regime_from_flow(
        config, rows, symbol, timeframe, resolve_time(timestamp_ms, now),
        get_flow_indicators_for_prompt(samples, symbol, timeframe,
                                       resolve_time(timestamp_ms, now)))

-----------------------------------------------------------------------------
(* market_regime_routes.py: the classify routes *)

\* The required fields of the pydantic model RegimeIndicators (lines 29-34).
RegimeIndicatorsFields == {"cvd_ratio", "oi_delta", "taker_ratio", "price_atr", "rsi"}

\* Lines 110-118 and 138-148: the call and the construction of the response
\* model.  RegimeIndicators(**result["indicators"]) raises a ValidationError
\* when a required field is missing.
build_response(symbol, r) ==
    IF r.raised THEN r
    ELSE IF ~(RegimeIndicatorsFields \subseteq DOMAIN r.indicators)
    THEN Raised("ValidationError")
    ELSE r

Answer(symbol, r) ==
    [symbol |-> symbol, regime |-> r.regime, direction |-> r.direction,
     confidence |-> r.confidence, reason |-> r.reason, indicators |-> r.indicators]

\* Lines 109-124: the response model, or HTTPException(500) in the except branch.
route_answer(symbol, r) ==
    IF r.raised
    THEN [status |-> 500, detail |-> "Failed to get market regime: " \o r.exc,
          body |-> <<>>]
    ELSE [status |-> 200, detail |-> "", body |-> Answer(symbol, r)]

\* Lines 100-124.
get_regime_for_symbol(config, rows, samples, symbol, timeframe, timestamp_ms, now) ==
    route_answer(symbol,
                 build_response(symbol, get_market_regime(config, rows, samples, symbol,
                                                          timeframe, timestamp_ms, now)))

batch_abort_step(symbol, r, rest) ==
    IF r.raised \/ rest.status # 200
    THEN [status |-> 500, results |-> <<>>, errors |-> <<>>]
    ELSE [rest EXCEPT !.results = <<Answer(symbol, r)>> \o @]

RECURSIVE batch_abort_loop(_, _, _, _, _, _, _)
batch_abort_loop(config, rows, samples, symbols, timeframe, timestamp_ms, now) ==
    IF symbols = <<>> THEN [status |-> 200, results |-> <<>>, errors |-> <<>>]
    ELSE batch_abort_step(
             Head(symbols),
             build_response(Head(symbols),
                 get_market_regime(config, rows, samples, Head(symbols), timeframe,
                                   timestamp_ms, now)),
             batch_abort_loop(config, rows, samples, Tail(symbols), timeframe,
                              timestamp_ms, now))

get_regime_batch_abort(config, rows, samples, symbols, timeframe, timestamp_ms, now) ==
    batch_abort_loop(config, rows, samples, symbols, timeframe, timestamp_ms, now)

\* Lines 138-151: one symbol goes to results, or to errors in the except branch.
batch_step(symbol, r, rest) ==
    IF r.raised
    THEN [rest EXCEPT !.errors = <<[symbol |-> symbol, error |-> r.exc]>> \o @]
    ELSE [rest EXCEPT !.results = <<Answer(symbol, r)>> \o @]

RECURSIVE batch_loop(_, _, _, _, _, _, _)
\* Lines 136-151: the loop over request.symbols, one try/except per symbol.
batch_loop(config, rows, samples, symbols, timeframe, timestamp_ms, now) ==
    IF symbols = <<>> THEN [status |-> 200, results |-> <<>>, errors |-> <<>>]
    ELSE batch_step(
             Head(symbols),
             build_response(Head(symbols),
                 get_market_regime(config, rows, samples, Head(symbols), timeframe,
                                   timestamp_ms, now)),
             batch_loop(config, rows, samples, Tail(symbols), timeframe,
                        timestamp_ms, now))

\* Lines 127-153.
get_regime_batch(config, rows, samples, symbols, timeframe, timestamp_ms, now) ==
    batch_loop(config, rows, samples, symbols, timeframe, timestamp_ms, now)

-----------------------------------------------------------------------------
(* Indicator vectors the pure functions are applied to (milli). *)

Vector(c, t, o, p, r, g) ==
    [cvd_ratio |-> c, taker_log_ratio |-> t, oi_delta |-> o, price_atr |-> p,
     rsi |-> r, price_range_atr |-> g]

\* Values on both sides of every threshold of ConfigRows.
CvdValues == {0 - 160, 0 - 60, 0, 50, 60, 150, 160}
TakerValues == {0 - 3600, 0 - 600, 0, 600, 3600}
OiValues == {0 - 1500, 0 - 700, 0, 200, 500}
PriceValues == {0 - 600, 0 - 200, 0, 300, 400, 500, 600, 800}
RsiValues == {25000, 50000, 75000}
RangeValues == {0, 1000, 1500, 2500}

ClassifyVectors ==
    {Vector(c, t, o, p, r, g) : c \in CvdValues, t \in TakerValues, o \in OiValues,
                                p \in PriceValues, r \in RsiValues, g \in RangeValues}

\* The sign combinations of the three voters, with the magnitudes of spec section 8.
DirectionVectors ==
    {Vector(c, t, 0, p, 50000, 0) : c \in {0 - 200, 0, 200}, t \in {0 - 500, 0, 500},
                                    p \in {0 - 300, 0, 300}}

Vectors == ClassifyVectors \cup DirectionVectors

-----------------------------------------------------------------------------
(* The pure functions applied to drawn inputs *)

\* Empty tables market_trades_aggregated, market_orderbook_snapshots and
\* market_asset_metrics.
NoMarket == [trades |-> {}, orderbook |-> {}, metrics |-> {}]

NoResult == [op |-> "none"]

InitClassify ==
    /\ configs = {}
    /\ klines = {}
    /\ flow = {}
    /\ input \in [vec : Vectors, config : ConfigRows]
    /\ market = NoMarket
    /\ result = NoResult

ClassifyRegime ==
    /\ result' = [op |-> "classify_regime"] @@
                 classify_regime(input.vec.cvd_ratio, input.vec.taker_log_ratio,
                                 input.vec.oi_delta, input.vec.price_atr, input.vec.rsi,
                                 input.vec.price_range_atr, input.config)
    /\ UNCHANGED <<market, configs, klines, flow, input>>

CalculateDirection ==
    /\ result' = [op |-> "calculate_direction",
                  direction |-> calculate_direction(input.vec.cvd_ratio,
                                    input.vec.taker_log_ratio, input.vec.price_atr)]
    /\ UNCHANGED <<market, configs, klines, flow, input>>

NextClassify == ClassifyRegime \/ CalculateDirection

SpecClassify == InitClassify /\ [][NextClassify]_vars

-----------------------------------------------------------------------------
(* The guards of the classifier as the specification words them *)

StrongFlow(v, c) == 10 * Abs(v.cvd_ratio) > c.breakout_cvd_z
WeakFlow(v, c) == 30 * Abs(v.cvd_ratio) > c.breakout_cvd_z
BreakoutDisplacement(v, c) == Abs(v.price_atr) > c.breakout_price_atr + 200
Movement(v, c) == Abs(v.price_atr) > c.absorption_price_atr
OiContracting(v, c) == v.oi_delta < c.trap_oi_z
SameSign(v) == v.cvd_ratio * v.price_atr > 0

StopHuntGuard(v, c) ==
    v.price_range_atr > c.stop_hunt_range_atr /\ Abs(v.price_atr) < c.stop_hunt_close_atr
BreakoutGuard(v, c) ==
    /\ StrongFlow(v, c) /\ BreakoutDisplacement(v, c) /\ SameSign(v)
    /\ is_solid_move(v.price_atr, v.price_range_atr)
    /\ (is_taker_extreme(v.taker_log_ratio, c) \/ v.oi_delta > c.breakout_oi_z)
ExhaustionGuard(v, c) ==
    /\ StrongFlow(v, c) /\ OiContracting(v, c)
    /\ (v.rsi > c.exhaustion_rsi_high \/ v.rsi < c.exhaustion_rsi_low)
TrapGuard(v, c) == StrongFlow(v, c) /\ OiContracting(v, c)
AbsorptionGuard(v, c) == StrongFlow(v, c) /\ ~Movement(v, c)
ContinuationGuard(v, c) == WeakFlow(v, c) /\ Movement(v, c) /\ SameSign(v)

GuardOrder(v, c) ==
    << <<REGIME_STOP_HUNT, StopHuntGuard(v, c)>>,
       <<REGIME_BREAKOUT, BreakoutGuard(v, c)>>,
       <<REGIME_EXHAUSTION, ExhaustionGuard(v, c)>>,
       <<REGIME_TRAP, TrapGuard(v, c)>>,
       <<REGIME_ABSORPTION, AbsorptionGuard(v, c)>>,
       <<REGIME_CONTINUATION, ContinuationGuard(v, c)>> >>

\* The labels whose guard holds and before which no guard holds.
FirstGuardLabels(v, c) ==
    LET g == GuardOrder(v, c)
    IN  {g[i][1] : i \in {k \in 1..Len(g) : g[k][2] /\ \A j \in 1..(k - 1) : ~g[j][2]}}

NoGuardHolds(v, c) == \A i \in 1..Len(GuardOrder(v, c)) : ~GuardOrder(v, c)[i][2]

Sign(x) == IF x > 0 THEN 1 ELSE IF x < 0 THEN 0 - 1 ELSE 0
NetVotes(v) == Sign(v.cvd_ratio) + Sign(v.taker_log_ratio) + Sign(v.price_atr)
Opposite(d) ==
    IF d = DIRECTION_BULLISH THEN DIRECTION_BEARISH
    ELSE IF d = DIRECTION_BEARISH THEN DIRECTION_BULLISH ELSE d

-----------------------------------------------------------------------------
(* Claims about the pure functions, checked under SpecClassify *)

\* C1: classify_regime returns exactly one of the 7 labels: the label of the
\* first guard that holds in the order stop_hunt, breakout, exhaustion, trap,
\* absorption, continuation, and noise exactly when no guard holds.
C1_FirstMatchingGuard ==
    result.op = "classify_regime" =>
        /\ result.regime \in Regimes
        /\ IF NoGuardHolds(input.vec, input.config)
           THEN result.regime = REGIME_NOISE
           ELSE /\ result.regime # REGIME_NOISE
                /\ FirstGuardLabels(input.vec, input.config) = {result.regime}

\* C1 witness: an exhaustion result, where the trap guard holds as well and
\* only the order of the guards decides.
C1_Witness ==
    /\ result.op = "classify_regime"
    /\ result.regime = REGIME_EXHAUSTION
    /\ TrapGuard(input.vec, input.config)

\* C2: whenever the stop_hunt guard holds the result is stop_hunt, whatever
\* cvd_ratio, taker_log_ratio, oi_delta and rsi are, also when the breakout
\* guard holds at the same time.
C2_StopHuntPrecedence ==
    (result.op = "classify_regime" /\ StopHuntGuard(input.vec, input.config))
        => result.regime = REGIME_STOP_HUNT

\* C2 witness: stop_hunt returned for a vector that satisfies the breakout guard too.
C2_Witness ==
    /\ result.op = "classify_regime"
    /\ StopHuntGuard(input.vec, input.config)
    /\ BreakoutGuard(input.vec, input.config)
    /\ result.regime = REGIME_STOP_HUNT

\* C3: calculate_direction is bullish exactly when the net of the three sign
\* votes is >= 2, bearish exactly when it is <= -2 and neutral otherwise;
\* negating all three inputs swaps bullish and bearish and keeps neutral;
\* (0.2, 0.5, 0.3) is bullish and (0.2, -0.5, 0) is neutral.
C3_DirectionVote ==
    result.op = "calculate_direction" =>
        LET v == input.vec
            n == NetVotes(v)
        IN  /\ (result.direction = DIRECTION_BULLISH) <=> (n >= 2)
            /\ (result.direction = DIRECTION_BEARISH) <=> (n <= 0 - 2)
            /\ (result.direction = DIRECTION_NEUTRAL) <=> (n > 0 - 2 /\ n < 2)
            /\ calculate_direction(0 - v.cvd_ratio, 0 - v.taker_log_ratio, 0 - v.price_atr)
                   = Opposite(result.direction)
            /\ (v.cvd_ratio = 200 /\ v.taker_log_ratio = 500 /\ v.price_atr = 300)
                   => result.direction = DIRECTION_BULLISH
            /\ (v.cvd_ratio = 200 /\ v.taker_log_ratio = 0 - 500 /\ v.price_atr = 0)
                   => result.direction = DIRECTION_NEUTRAL

\* C3 witness: the vote on (0.2, -0.5, 0), one vote each way and one abstention.
C3_Witness ==
    /\ result.op = "calculate_direction"
    /\ input.vec.cvd_ratio = 200 /\ input.vec.taker_log_ratio = 0 - 500
    /\ input.vec.price_atr = 0
    /\ result.direction = DIRECTION_NEUTRAL

-----------------------------------------------------------------------------
(* Stored data the service is run on *)

Symbols == {"BTC", "ETH"}
\* Bars of the 5m period; CryptoKline.timestamp is stored in seconds.
BAR_SECONDS == 300

KlineRow(symbol, period, i, bar) ==
    [symbol |-> symbol, period |-> period, timestamp |-> i * BAR_SECONDS,
     open_price |-> bar.open, high_price |-> bar.high, low_price |-> bar.low,
     close_price |-> bar.close]

Bar(o, h, l, c) == [open |-> o, high |-> h, low |-> l, close |-> c]

\* A quiet bar: closes where it opened, true range 177 (176 for the second bar).
QuietBar(i) == Bar(50000, 50100, IF i = 2 THEN 49924 ELSE 49923, 50000)
\* A falling bar.
FallingBar(i) == Bar(50500 - 20 * i, 50530 - 20 * i, 50450 - 20 * i, 50480 - 20 * i)
\* The bar of spec section 8: open 50000, close 50400, high 50450, low 49950.
BreakoutBar == Bar(50000, 50450, 49950, 50400)
\* A wide bar that closes near its open.
SpikeBar == Bar(50000, 50400, 49800, 50020)

\* 14 quiet bars and the breakout bar: ATR14 of the last bar is 200.
BreakoutSeries(symbol) ==
    {KlineRow(symbol, "5m", i, IF i = 15 THEN BreakoutBar ELSE QuietBar(i)) : i \in 1..15}

Cur(n) == [current |-> PyNum(n)]
Taker(b, s) == [buy |-> PyNum(b), sell |-> PyNum(s)]

GoodFlow ==
    FlowData([CVD |-> EntryDict(Cur(220)), TAKER |-> EntryDict(Taker(610, 390)),
              OI_DELTA |-> EntryDict(Cur(500))])
BearFlow ==
    FlowData([CVD |-> EntryDict(Cur(0 - 220)), TAKER |-> EntryDict(Taker(390, 610)),
              OI_DELTA |-> EntryDict(Cur(0 - 700))])
EmptyFlow == FlowData(<<>>)

\* The shapes of a flow-indicator result: entries present, absent, None, empty,
\* with missing fields and with None fields.
FlowShapes ==
    {FlowFailure, EmptyFlow, GoodFlow, BearFlow,
     FlowData([CVD |-> EntryNone, TAKER |-> EntryDict(Taker(610, 390)),
               OI_DELTA |-> EntryDict(Cur(500))]),
     FlowData([CVD |-> EntryDict(<<>>), TAKER |-> EntryDict(Taker(610, 390)),
               OI_DELTA |-> EntryDict(Cur(500))]),
     FlowData([CVD |-> EntryDict(Cur(220)), OI_DELTA |-> EntryDict(Cur(500))]),
     FlowData([CVD |-> EntryDict(Cur(220)), TAKER |-> EntryDict(Taker(610, 390))]),
     FlowData([CVD |-> EntryDict(Cur(220)), TAKER |-> EntryDict(Taker(610, 390)),
               OI_DELTA |-> EntryNone]),
     FlowData([CVD |-> EntryDict(Cur(220)), TAKER |-> EntryDict(Taker(610, 390)),
               OI_DELTA |-> EntryDict(<<>>)]),
     FlowData([CVD |-> EntryDict(Cur(220)), TAKER |-> EntryDict(Taker(610, 390)),
               OI_DELTA |-> EntryDict([current |-> PyNone])]),
     FlowData([CVD |-> EntryDict([current |-> PyNone]),
               TAKER |-> EntryDict(Taker(610, 390)), OI_DELTA |-> EntryDict(Cur(500))]),
     FlowData([CVD |-> EntryDict(Cur(220)),
               TAKER |-> EntryDict([buy |-> PyNone, sell |-> PyNum(390)]),
               OI_DELTA |-> EntryDict(Cur(500))]),
     FlowData([CVD |-> EntryDict([cumulative |-> PyNum(220)]),
               TAKER |-> EntryDict([buy |-> PyNum(610)]),
               OI_DELTA |-> EntryDict([last |-> PyNum(500)])]),
     FlowData([CVD |-> EntryDict([current |-> PyNone]), TAKER |-> EntryDict(Taker(0, 0)),
               OI_DELTA |-> EntryDict(Cur(0))])}

FlowSample(symbol, t, answer) == [symbol |-> symbol, timestamp |-> t, answer |-> answer]

-----------------------------------------------------------------------------
(* The classifier and its routes on stored data *)

MaxBatch == 3

NoCall == [op |-> "none"]

Timeframes == {"5m", "7m"}
ConfigIds == {PyNone, PyNum(2), PyNum(99)}
CallTimes == {PyNone, PyNum(15 * BAR_SECONDS * 1000)}
ClockTimes == {16 * BAR_SECONDS * 1000}

SymbolLists == UNION {[1..n -> Symbols] : n \in 1..MaxBatch}

ConfidenceArgs ==
    [cvd_ratio : {0, 220, 10000}, taker_log_ratio : {0, 0 - 3600},
     oi_delta : {0, 0 - 9000}, price_atr : {0, 2000, 0 - 50000}]

InitRegime ==
    /\ configs \in {{}, {UpgradedDefaultConfig}, {UpgradedDefaultConfig, TunedConfig}}
    /\ klines = BreakoutSeries("BTC") \cup {KlineRow("ETH", "5m", i, FallingBar(i)) : i \in 1..3}
    /\ flow \in {{FlowSample("BTC", 0, a), FlowSample("ETH", 0, b)} :
                    a \in FlowShapes, b \in {GoodFlow, EmptyFlow, FlowFailure}}
    /\ input = NoCall
    /\ market = NoMarket
    /\ result = NoResult

Call(op, symbol, timeframe, config_id, timestamp_ms, now, config) ==
    [op |-> op, symbol |-> symbol, timeframe |-> timeframe, config_id |-> config_id,
     timestamp_ms |-> timestamp_ms, now |-> now, config |-> config]

GetMarketRegime ==
    \E symbol \in Symbols, timeframe \in Timeframes, config_id \in ConfigIds,
       timestamp_ms \in CallTimes, now \in ClockTimes :
      \E config \in resolve_config(configs, config_id) :
        /\ input = NoCall
        /\ input' = Call("get_market_regime", symbol, timeframe, config_id,
                         timestamp_ms, now, config)
        /\ result' = get_market_regime(config, klines, flow, symbol, timeframe,
                                       timestamp_ms, now)
        /\ UNCHANGED <<market, configs, klines, flow>>

GetRegimeForSymbol ==
    \E symbol \in Symbols, timeframe \in Timeframes, config_id \in ConfigIds,
       timestamp_ms \in CallTimes, now \in ClockTimes :
      \E config \in resolve_config(configs, config_id) :
        /\ input = NoCall
        /\ input' = Call("get_regime_for_symbol", symbol, timeframe, config_id,
                         timestamp_ms, now, config)
        /\ result' = get_regime_for_symbol(config, klines, flow, symbol, timeframe,
                                           timestamp_ms, now)
        /\ UNCHANGED <<market, configs, klines, flow>>

GetRegimeBatch ==
    \E symbols \in SymbolLists, timeframe \in Timeframes, config_id \in ConfigIds,
       timestamp_ms \in CallTimes, now \in ClockTimes :
      \E config \in resolve_config(configs, config_id) :
        /\ input = NoCall
        /\ input' = Call("get_regime_batch", symbols, timeframe, config_id,
                         timestamp_ms, now, config)
        /\ result' = get_regime_batch(config, klines, flow, symbols, timeframe,
                                      timestamp_ms, now)
        /\ UNCHANGED <<market, configs, klines, flow>>

CalculateConfidence ==
    \E a \in ConfidenceArgs :
        /\ input = NoCall
        /\ input' = [op |-> "calculate_confidence", args |-> a]
        /\ result' = [confidence |-> calculate_confidence(a.cvd_ratio, a.taker_log_ratio,
                                                          a.oi_delta, a.price_atr)]
        /\ UNCHANGED <<market, configs, klines, flow>>

NextRegime == GetMarketRegime \/ GetRegimeForSymbol \/ GetRegimeBatch \/ CalculateConfidence

SpecRegime == InitRegime /\ [][NextRegime]_vars

-----------------------------------------------------------------------------
(* The conditions of the call recorded in `input`, read off the stored data *)

\* The time the call looks the data up at.
CallTime == IF input.timestamp_ms.none THEN input.now ELSE input.timestamp_ms.v

NoConfigResolved == input.config = {}
TimeframeUnsupported == input.timeframe \notin TIMEFRAME_MS

\* What the flow source answers for a symbol at the call's time.
FlowAnswer(symbol) == get_flow_indicators_for_prompt(flow, symbol, input.timeframe, CallTime)

\* An entry of the answer that is absent, None or empty.
EntryMissing(symbol, key) ==
    LET data == FlowAnswer(symbol).data
    IN  key \notin DOMAIN data \/ data[key].none \/ DOMAIN data[key].d = {}

FlowDataMissing(symbol) ==
    /\ ~FlowAnswer(symbol).fails
    /\ (EntryMissing(symbol, "CVD") \/ EntryMissing(symbol, "TAKER"))

BusinessCondition(symbol) ==
    NoConfigResolved \/ TimeframeUnsupported \/ FlowDataMissing(symbol)

\* The reasons that name a business condition holding for the symbol.
ConditionReasons(symbol) ==
    (IF NoConfigResolved THEN {"No regime config found"} ELSE {})
    \cup (IF TimeframeUnsupported THEN {"Unsupported timeframe: " \o input.timeframe} ELSE {})
    \cup (IF FlowDataMissing(symbol) THEN {"Insufficient market flow data"} ELSE {})

-----------------------------------------------------------------------------
(* Claims about the service and its routes, checked under SpecRegime *)

\* C4: calculate_confidence returns a value in [0, 1] for every input, however
\* large, and the confidence of every result get_market_regime returns is in [0, 1].
C4_ConfidenceInUnitInterval ==
    /\ input.op = "calculate_confidence" =>
           (result.confidence >= 0 /\ result.confidence <= 100000)
    /\ (input.op = "get_market_regime" /\ ~result.raised) =>
           (result.confidence >= 0 /\ result.confidence <= 1000)

\* C4 witness: cvd_ratio = 10 with every other input beyond its cap gives exactly 1.0.
C4_Witness ==
    /\ input.op = "calculate_confidence"
    /\ input.args.cvd_ratio = 10000
    /\ input.args.price_atr = 0 - 50000
    /\ result.confidence = 100000

\* C6: when no config can be resolved, the timeframe is not supported or CVD or
\* TAKER flow data is missing, get_market_regime does not raise and returns
\* noise, neutral, confidence 0 and a reason naming the condition.
C6_BusinessConditionsDegrade ==
    (input.op = "get_market_regime" /\ BusinessCondition(input.symbol)) =>
        /\ ~result.raised
        /\ result.regime = REGIME_NOISE
        /\ result.direction = DIRECTION_NEUTRAL
        /\ result.confidence = 0
        /\ result.reason # ""
        /\ result.reason \in ConditionReasons(input.symbol)

\* C6 witness: a supported timeframe and a resolved config, and a TAKER entry
\* that is absent from the flow data.
C6_Witness ==
    /\ input.op = "get_market_regime"
    /\ ~NoConfigResolved /\ ~TimeframeUnsupported
    /\ "TAKER" \notin DOMAIN FlowAnswer(input.symbol).data
    /\ "CVD" \in DOMAIN FlowAnswer(input.symbol).data
    /\ result.reason = "Insufficient market flow data"

\* C7: for a symbol that hits a business-expected condition the single-symbol
\* route answers successfully with regime noise and confidence 0, and
\* classify_batch places the symbol in results, not in errors.
C7_BusinessConditionsAnswered ==
    /\ (input.op = "get_regime_for_symbol" /\ BusinessCondition(input.symbol)) =>
           /\ result.status = 200
           /\ result.body.regime = REGIME_NOISE
           /\ result.body.confidence = 0
    /\ input.op = "get_regime_batch" =>
           \A i \in 1..Len(input.symbol) :
               BusinessCondition(input.symbol[i]) =>
                   /\ \A k \in 1..Len(result.errors) :
                          result.errors[k].symbol # input.symbol[i]
                   /\ \E k \in 1..Len(result.results) :
                          /\ result.results[k].symbol = input.symbol[i]
                          /\ result.results[k].regime = REGIME_NOISE
                          /\ result.results[k].confidence = 0

\* The elements of seq at the positions that kind marks k, in order.
RECURSIVE Marked(_, _, _, _)
Marked(seq, kind, k, n) ==
    IF n = 0 THEN <<>>
    ELSE IF kind[n] = k THEN Append(Marked(seq, kind, k, n - 1), seq[n])
    ELSE Marked(seq, kind, k, n - 1)

\* C8: classify_batch processes every requested symbol: each position of the
\* request appears exactly once, in results or in errors (with its symbol and an
\* error text), in request order, and no exception aborts the call.
C8_BatchIsolatesFailures ==
    input.op = "get_regime_batch" =>
        LET symbols == input.symbol
            n == Len(symbols)
        IN  /\ result.status = 200
            /\ Len(result.results) + Len(result.errors) = n
            /\ \A k \in 1..Len(result.errors) : result.errors[k].error # ""
            /\ \E kind \in [1..n -> {"result", "error"}] :
                   /\ [k \in 1..Len(result.results) |-> result.results[k].symbol]
                          = Marked(symbols, kind, "result", n)
                   /\ [k \in 1..Len(result.errors) |-> result.errors[k].symbol]
                          = Marked(symbols, kind, "error", n)

\* C8 witness: a batch of three whose first symbol fails and a later one succeeds.
C8_Witness ==
    /\ input.op = "get_regime_batch"
    /\ Len(input.symbol) = 3
    /\ Len(result.errors) >= 1 /\ Len(result.results) >= 1
    /\ result.errors[1].symbol = input.symbol[1]
    /\ result.results[1].symbol # input.symbol[1]

\* C9: get_market_regime does not raise for any flow-indicator result whose
\* CVD, TAKER or OI_DELTA entries are absent, None, empty or carry None or
\* missing fields: an absent OI_DELTA is taken as oi_delta = 0 and the
\* classification proceeds, an absent CVD or TAKER degrades to noise.
C9_FlowShapesTolerated ==
    (/\ input.op = "get_market_regime"
     /\ ~NoConfigResolved /\ ~TimeframeUnsupported
     /\ ~FlowAnswer(input.symbol).fails) =>
        /\ ~result.raised
        /\ FlowDataMissing(input.symbol) => result.regime = REGIME_NOISE
        /\ (~FlowDataMissing(input.symbol) /\ EntryMissing(input.symbol, "OI_DELTA")) =>
               result.indicators.oi_delta = 0

-----------------------------------------------------------------------------
(* Replay: the stores grow and calls look the data up as of a given time *)

MaxBars == 17
MaxInsert == 2
MaxFlow == 2

BarMs == BAR_SECONDS * 1000

\* The first n bars of a series of the symbol.
Series(symbol, pattern, n) ==
    {KlineRow(symbol, "5m", i, IF pattern = "quiet" THEN QuietBar(i) ELSE FallingBar(i)) :
        i \in 1..n}

RowsOf(symbol) == {k \in klines : k.symbol = symbol}

\* As-of times: 0, and the opening times of the last bars and the millisecond before.
AsOfTimes == {0} \cup {i * BarMs - d : i \in (MaxBars - 3)..MaxBars, d \in {0, 1}}
FlowTimes == {(MaxBars - 3) * BarMs, (MaxBars - 1) * BarMs}

InitReplay ==
    /\ configs = {UpgradedDefaultConfig}
    /\ \E pattern \in {"quiet", "falling"}, n \in 0..MaxBars :
           klines = Series("BTC", pattern, n) \cup Series("ETH", "falling", 2)
    /\ flow \in {{FlowSample("BTC", 0, a)} : a \in {GoodFlow, BearFlow}}
    /\ input = NoCall
    /\ market = NoMarket
    /\ result = NoResult

\* A new bar of BTC is recorded after the last one.
InsertKline ==
    \E bar \in {BreakoutBar, SpikeBar} :
        LET n == Cardinality(RowsOf("BTC"))
        IN  /\ input = NoCall
            /\ n < MaxBars
            /\ n + MaxInsert >= MaxBars
            /\ klines' = klines \cup {KlineRow("BTC", "5m", n + 1, bar)}
            /\ UNCHANGED <<market, configs, flow, input, result>>

\* The flow source records a new sample.
InsertFlow ==
    \E t \in FlowTimes, a \in {BearFlow, EmptyFlow} :
        /\ input = NoCall
        /\ Cardinality(flow) < MaxFlow
        /\ \A x \in flow : x.timestamp # t
        /\ flow' = flow \cup {FlowSample("BTC", t, a)}
        /\ UNCHANGED <<market, configs, klines, input, result>>

FetchKlineData ==
    \E t \in {PyNone} \cup {PyNum(a) : a \in AsOfTimes} :
        /\ input = NoCall
        /\ input' = [op |-> "fetch_kline_data", symbol |-> "BTC", period |-> "5m",
                     current_time_ms |-> t]
        /\ result' = [bars |-> fetch_kline_data(klines, "BTC", "5m", KLINE_LIMIT, t)]
        /\ UNCHANGED <<market, configs, klines, flow>>

CalculatePriceMetrics ==
    \E a \in AsOfTimes \ {0} :
        LET kline_data == fetch_kline_data(klines, "BTC", "5m", KLINE_LIMIT, PyNum(a))
        IN  /\ input = NoCall
            /\ input' = [op |-> "calculate_price_metrics", kline_data |-> kline_data]
            /\ result' = calculate_price_metrics(kline_data)
            /\ UNCHANGED <<market, configs, klines, flow>>

GetMarketRegimeAsOf ==
    \E a \in AsOfTimes, config \in resolve_config(configs, PyNone) :
        /\ input = NoCall
        /\ input' = Call("get_market_regime", "BTC", "5m", PyNone, PyNum(a),
                         MaxBars * BarMs, config)
        /\ result' = get_market_regime(config, klines, flow, "BTC", "5m", PyNum(a),
                                       MaxBars * BarMs)
        /\ UNCHANGED <<market, configs, klines, flow>>

NextReplay ==
    InsertKline \/ InsertFlow \/ FetchKlineData \/ CalculatePriceMetrics
        \/ GetMarketRegimeAsOf

SpecReplay == InitReplay /\ [][NextReplay]_vars

-----------------------------------------------------------------------------
(* Claims about replay, checked under SpecReplay *)

\* The classification of BTC on the 5m timeframe as of time a, on the given stores.
RegimeAsOf(rows, samples, a) ==
    {get_market_regime(config, rows, samples, "BTC", "5m", PyNum(a), MaxBars * BarMs) :
        config \in resolve_config(configs, PyNone)}

\* The step adds data, and only data timestamped after a.
OnlyLaterDataAdded(a) ==
    /\ <<klines, flow>>' # <<klines, flow>>
    /\ klines \subseteq klines' /\ flow \subseteq flow'
    /\ \A k \in klines' \ klines : k.timestamp * 1000 > a
    /\ \A x \in flow' \ flow : x.timestamp > a

\* C5: for every explicit as-of time >= 0, adding bars or flow data timestamped
\* after it does not change the classification computed at it (so the call
\* repeated with the same arguments gives the identical result).
C5_NoLookahead ==
    [][\A a \in AsOfTimes : OnlyLaterDataAdded(a) =>
           RegimeAsOf(klines', flow', a) = RegimeAsOf(klines, flow, a)]_vars

\* C10: with fewer than 15 bars calculate_price_metrics returns exactly
\* price_atr = 0, price_range_atr = 0, rsi = 50, for every list of 0..14 bars.
C10_NeutralDefaults ==
    (input.op = "calculate_price_metrics" /\ Len(input.kline_data) < 15) =>
        result = [price_atr |-> 0, price_range_atr |-> 0, rsi |-> 50000]

\* C10 witness: 14 falling bars, one short of the lookback, give the defaults.
C10_Witness ==
    /\ input.op = "calculate_price_metrics"
    /\ Len(input.kline_data) = 14
    /\ input.kline_data[14].close < input.kline_data[14].open
    /\ result = [price_atr |-> 0, price_range_atr |-> 0, rsi |-> 50000]

\* The bars the call of the state was given: those fetched as of its time.
BarsOfCall ==
    fetch_kline_data(klines, input.symbol, input.timeframe, KLINE_LIMIT, input.timestamp_ms)

\* C11: when fewer than 15 bars are available as of the requested time, the
\* classification get_market_regime returns with the default config is noise,
\* whatever the flow indicators are.
C11_FewBarsGiveNoise ==
    (/\ input.op = "get_market_regime"
     /\ Len(BarsOfCall) < MIN_BARS
     /\ ~result.raised) => result.regime = REGIME_NOISE

-----------------------------------------------------------------------------
(* create_market_regime_configs.py: migrate, and the route update_regime_config *)

\* Lines 41-67: the three UPDATEs of the default rows that hold the old defaults.
upgrade_oi(c) ==
    IF c.is_default /\ c.breakout_oi_z = 300 THEN [c EXCEPT !.breakout_oi_z = 100] ELSE c
upgrade_trap(c) ==
    IF c.is_default /\ c.trap_oi_z = 0 - 1000 THEN [c EXCEPT !.trap_oi_z = 0 - 500] ELSE c
upgrade_taker(c) ==
    IF c.is_default /\ c.breakout_taker_high = 1800 /\ c.breakout_taker_low = 550
    THEN [c EXCEPT !.breakout_taker_high = 33000, !.breakout_taker_low = 30]
    ELSE c

\* id SERIAL: the next id of the sequence.
next_id(table) == IF table = {} THEN 1 ELSE 1 + (CHOOSE i \in {c.id : c \in table} : \A c \in table : c.id <= i)

insert_default_always(table) ==
    table \cup {[InsertedDefaultConfig EXCEPT !.id = next_id(table)]}

\* Lines 97-121: the default row is inserted when no row has is_default = true.
insert_default(table) ==
    IF \E c \in table : c.is_default THEN table
    ELSE table \cup {[InsertedDefaultConfig EXCEPT !.id = next_id(table)]}

\* Lines 24-125.  A table that does not exist yet is created empty: the UPDATEs
\* are skipped, and on an empty table they change nothing.
migrate(table) ==
    insert_default({upgrade_taker(upgrade_trap(upgrade_oi(c))) : c \in table})

\* The fields of RegimeConfigUpdateRequest (routes, lines 80-97).
RequestFields ==
    {"rolling_window", "breakout_cvd_z", "breakout_oi_z", "breakout_price_atr",
     "breakout_taker_high", "breakout_taker_low", "absorption_cvd_z",
     "absorption_price_atr", "trap_cvd_z", "trap_oi_z", "exhaustion_cvd_z",
     "exhaustion_rsi_high", "exhaustion_rsi_low", "stop_hunt_range_atr",
     "stop_hunt_close_atr", "noise_cvd_z"}

\* Lines 205-208: request.model_dump(exclude_unset=True) keeps the fields the
\* request supplied (a request is the mapping of its supplied fields to PyNum
\* or PyNone), and a field is set only when its value is not None.
setattr_all_overwrite(row, request) ==
    [f \in DOMAIN row |->
        IF f \in RequestFields
        THEN (IF f \in DOMAIN request /\ ~request[f].none THEN request[f].v ELSE 0)
        ELSE row[f]]

setattr_all(row, request) ==
    [f \in DOMAIN row |->
        IF f \in DOMAIN request /\ ~request[f].none THEN request[f].v ELSE row[f]]

\* What `x or default` gives in the response (lines 216-234): the default for 0.
ResponseDefaults ==
    [rolling_window |-> 48, breakout_cvd_z |-> 1500,
     breakout_oi_z |-> 1000, breakout_price_atr |-> 500, breakout_taker_high |-> 1800,
     breakout_taker_low |-> 550, absorption_cvd_z |-> 1500, absorption_price_atr |-> 300,
     trap_cvd_z |-> 1000, trap_oi_z |-> 0 - 1000, exhaustion_cvd_z |-> 1000,
     exhaustion_rsi_high |-> 70000, exhaustion_rsi_low |-> 30000,
     stop_hunt_range_atr |-> 1000, stop_hunt_close_atr |-> 300, noise_cvd_z |-> 500]

\* RegimeConfigResponse(...) of lines 213-234 (is_default or False is is_default).
config_response(row) ==
    [f \in DOMAIN row |->
        IF f \in DOMAIN ResponseDefaults /\ row[f] = 0
        THEN ResponseDefaults[f] ELSE row[f]]

\* Lines 200-212: the rows after the commit.
update_rows(table, config_id, request) ==
    {IF c.id = config_id THEN setattr_all(c, request) ELSE c : c \in table}

\* Lines 193-243: 404 when no row has the id, else the refreshed row.
update_regime_config(table, config_id, request) ==
    IF ~\E c \in table : c.id = config_id
    THEN [status |-> 404, table |-> table, body |-> <<>>]
    ELSE [status |-> 200, table |-> update_rows(table, config_id, request),
          body |-> config_response(
                       setattr_all(CHOOSE c \in table : c.id = config_id, request))]

-----------------------------------------------------------------------------
(* The config table under migrations and updates *)

PatchFields == {"breakout_cvd_z", "trap_oi_z"}
PatchValues == {PyNone, PyNum(0), PyNum(600), PyNum(0 - 1000)}

\* Requests: any subset of the fields supplied, each with a value or null.
Requests == UNION {[S -> PatchValues] : S \in SUBSET PatchFields}
UpdateIds == {1, 2, 3}

InitConfig ==
    /\ configs \in {{}, {InsertedDefaultConfig, TunedConfig}}
    /\ klines = {}
    /\ flow = {}
    /\ input = NoCall
    /\ market = NoMarket
    /\ result = NoResult

Migrate ==
    /\ configs' = migrate(configs)
    /\ input' = [op |-> "migrate"]
    /\ result' = [op |-> "migrate"]
    /\ UNCHANGED <<market, klines, flow>>

UpdateRegimeConfig ==
    \E config_id \in UpdateIds, request \in Requests :
        /\ configs' = update_regime_config(configs, config_id, request).table
        /\ input' = [op |-> "update_regime_config", config_id |-> config_id,
                     request |-> request]
        /\ result' = [status |-> update_regime_config(configs, config_id, request).status,
                      body |-> update_regime_config(configs, config_id, request).body]
        /\ UNCHANGED <<market, klines, flow>>

NextConfig == Migrate \/ UpdateRegimeConfig

SpecConfig == InitConfig /\ [][NextConfig]_vars

-----------------------------------------------------------------------------
(* Claims about the config table, checked under SpecConfig *)

\* The step is a call of update_regime_config.
UpdateStep == input'.op = "update_regime_config"

\* Fields of the row that the request of the step supplied.
Supplied == DOMAIN input'.request

\* C12: update_config changes only the fields the request supplied: every
\* other threshold field, the name and is_default of the row, and every other
\* row, are unchanged; applying the same patch again changes nothing more.
C12_MergePatch ==
    [][UpdateStep =>
        /\ {c \in configs : c.id # input'.config_id}
               = {c \in configs' : c.id # input'.config_id}
        /\ \A c \in configs : c.id = input'.config_id =>
               \E d \in configs' :
                   /\ d.id = c.id
                   /\ \A f \in DOMAIN c : f \notin Supplied => d[f] = c[f]
                   /\ d.name = c.name /\ d.is_default = c.is_default
        /\ update_regime_config(configs', input'.config_id, input'.request).table
               = configs']_vars

\* C12 witness: a request that supplies breakout_cvd_z and not trap_oi_z was
\* applied to the operator's row, next to the default row.
C12_Witness ==
    /\ input.op = "update_regime_config" /\ result.status = 200
    /\ input.config_id = 2
    /\ DOMAIN input.request = {"breakout_cvd_z"} /\ input.request["breakout_cvd_z"] = PyNum(0)
    /\ \E c \in configs : c.id = 2 /\ c.breakout_cvd_z = 0 /\ c.trap_oi_z = 0 - 1000
    /\ \E c \in configs : c.is_default

DefaultRows == {c \in configs : c.is_default}

\* C13: once migrate has run, exactly one row is the default: migrate leaves
\* exactly one, and no later migrate or update_config changes that.
C13_ExactlyOneDefault ==
    [][/\ input'.op = "migrate" => Cardinality(DefaultRows') = 1
       /\ Cardinality(DefaultRows) = 1 => Cardinality(DefaultRows') = 1]_vars

\* C13 witness: the migration ran on a table with two rows after an update of
\* the default row, and one row is the default.
C13_Witness ==
    /\ input.op = "migrate"
    /\ Cardinality(configs) = 2
    /\ \E c \in configs : c.is_default /\ c.breakout_cvd_z = 600 /\ c.trap_oi_z = 0 - 500
    /\ Cardinality(DefaultRows) = 1

-----------------------------------------------------------------------------
(* Concurrent requests: two update_regime_config calls and one get_market_regime
   call on the same config row, each in its own database session *)

Updaters == {"u1", "u2"}
TargetId == 1

\* Lines 200-203: the session of an update call before its SELECT.
NewSession(request) ==
    [pc |-> "start", request |-> request, loaded |-> {}, current |-> {}, status |-> 0]

\* The columns the flush of the session writes: the unit of work emits an
\* UPDATE only for the attributes whose value differs from the loaded one.
dirty_fields(loaded, current, request) ==
    {f \in DOMAIN current : current[f] # loaded[f]}

\* Line 210, db.commit(): the UPDATE of the dirty columns of the row.
commit_rows(table, config_id, current, dirty) ==
    {IF c.id = config_id THEN [f \in DOMAIN c |-> IF f \in dirty THEN current[f] ELSE c[f]]
     ELSE c : c \in table}

ConcurrentRequests == {q \in Requests : DOMAIN q # {}}

InitConcurrent ==
    /\ configs = {InsertedDefaultConfig, TunedConfig}
    /\ klines = BreakoutSeries("BTC")
    /\ flow = {FlowSample("BTC", 0, GoodFlow)}
    /\ \E q1 \in ConcurrentRequests, q2 \in ConcurrentRequests :
           input = [op |-> "concurrent",
                    sessions |-> [u \in Updaters |->
                                     NewSession(IF u = "u1" THEN q1 ELSE q2)],
                    reader |-> [pc |-> "start", config |-> {}]]
    /\ market = NoMarket
    /\ result = NoResult

\* Line 201: config = db.query(MarketRegimeConfig).filter(id == config_id).first()
UpdaterLoad(u) ==
    /\ input.sessions[u].pc = "start"
    /\ input' = [input EXCEPT !.sessions[u].pc = "loaded",
                              !.sessions[u].loaded = {c \in configs : c.id = TargetId}]
    /\ UNCHANGED <<market, configs, klines, flow, result>>

\* Lines 202-208: 404 when there is no row, else the setattr loop on the
\* session's object.
UpdaterSetAttrs(u) ==
    /\ input.sessions[u].pc = "loaded"
    /\ input' = [input EXCEPT
                    !.sessions[u].pc = IF input.sessions[u].loaded = {} THEN "done" ELSE "set",
                    !.sessions[u].status = IF input.sessions[u].loaded = {} THEN 404 ELSE 0,
                    !.sessions[u].current =
                        {setattr_all(c, input.sessions[u].request) :
                            c \in input.sessions[u].loaded}]
    /\ UNCHANGED <<market, configs, klines, flow, result>>

\* Lines 210-211: db.commit() and db.refresh(config).
UpdaterCommit(u) ==
    /\ input.sessions[u].pc = "set"
    /\ \E l \in input.sessions[u].loaded, c \in input.sessions[u].current :
           configs' = commit_rows(configs, TargetId, c,
                                  dirty_fields(l, c, input.sessions[u].request))
    /\ input' = [input EXCEPT !.sessions[u].pc = "done", !.sessions[u].status = 200]
    /\ UNCHANGED <<market, klines, flow, result>>

\* market_regime_service.py, lines 289-295: the reader's SELECT of the config.
ReaderLoad ==
    /\ input.reader.pc = "start"
    /\ \E config \in resolve_config(configs, PyNum(TargetId)) :
           input' = [input EXCEPT !.reader = [pc |-> "loaded", config |-> config]]
    /\ UNCHANGED <<market, configs, klines, flow, result>>

\* Lines 297-398: the classification with the loaded config object.
ReaderClassify ==
    /\ input.reader.pc = "loaded"
    /\ input' = [input EXCEPT !.reader.pc = "done"]
    /\ result' = get_market_regime(input.reader.config, klines, flow, "BTC", "5m",
                                   PyNone, 15 * BAR_SECONDS * 1000)
    /\ UNCHANGED <<market, configs, klines, flow>>

NextConcurrent ==
    \/ \E u \in Updaters : UpdaterLoad(u) \/ UpdaterSetAttrs(u) \/ UpdaterCommit(u)
    \/ ReaderLoad
    \/ ReaderClassify

SpecConcurrent == InitConcurrent /\ [][NextConcurrent]_vars

-----------------------------------------------------------------------------
(* Claims about concurrent requests, checked under SpecConcurrent *)

\* The stored row the requests are about.
TargetRow(table) == CHOOSE c \in table : c.id = TargetId

\* The step is the commit of updater u.
CommitStep(u) == input.sessions[u].pc = "set" /\ input'.sessions[u].pc = "done"

\* The row after the whole request q is applied to row c.
Applied(q, c) == setattr_all(c, q)

\* The versions of the row that whole updates produce, in any commit order.
WholeVersions ==
    LET q1 == input.sessions["u1"].request
        q2 == input.sessions["u2"].request
        v0 == InsertedDefaultConfig
    IN  {v0, Applied(q1, v0), Applied(q2, v0), Applied(q2, Applied(q1, v0)),
         Applied(q1, Applied(q2, v0))}

\* C14: a reader that runs concurrently with updates classifies with a config
\* that is all pre-update or all post-update, never a mix; and of two
\* concurrent updates to the same field the value of the later commit is the
\* one stored.
C14_AtomicLastWriterWins ==
    [][/\ \A u \in Updaters : CommitStep(u) =>
              \A f \in DOMAIN input.sessions[u].request :
                  ~input.sessions[u].request[f].none =>
                      TargetRow(configs')[f] = input.sessions[u].request[f].v
       /\ input'.reader.config \subseteq WholeVersions]_vars

-----------------------------------------------------------------------------
(* signal_analysis_service.py: the metric histories.

   Rows of the market tables carry Optional numbers (PyNone / PyNum) in whole
   units.  A series value is kept in hundredths of the last digit the
   statistics are rounded to: 1e-6 for the metrics rounded to 4 places, 1e-8
   for funding (6 places), 1e-4 for the taker_volume ratio (2 places) and 1e-2
   for its volume (0 places). *)

MIN_SAMPLES == 3
LIMITED_DATA_THRESHOLD == 10

\* services.market_flow_indicators.TIMEFRAME_MS[period]
interval_ms_of(period) ==
    CASE period = "1m" -> 60000
      [] period = "5m" -> 300000
      [] period = "15m" -> 900000
      [] period = "1h" -> 3600000

\* services.market_flow_indicators.floor_timestamp
floor_timestamp(ts, interval_ms) == ts - (ts % interval_ms)

\* symbol.upper()
upper(symbol) == IF symbol = "btc" THEN "BTC" ELSE IF symbol = "eth" THEN "ETH" ELSE symbol

\* float(x or 0)
float_or_0(x) == IF x.none THEN 0 ELSE x.v

\* The rows a history query returns: symbol and time window (e.g. lines 183-190).
query(table, symbol, start_time_ms, current_time_ms) ==
    {r \in table : /\ r.symbol = upper(symbol)
                   /\ r.timestamp >= start_time_ms /\ r.timestamp <= current_time_ms}

RECURSIVE SortedTimes(_)
\* sorted(buckets.keys())
SortedTimes(times) ==
    IF times = {} THEN <<>>
    ELSE Append(SortedTimes(times \ {CHOOSE t \in times : \A u \in times : u <= t}),
                CHOOSE t \in times : \A u \in times : u <= t)

\* The keys of buckets, ascending.
bucket_times(records, interval_ms) ==
    SortedTimes({floor_timestamp(r.timestamp, interval_ms) : r \in records})

\* The first row of a bucket instead of the last one.
first_row(records, interval_ms, b) ==
    CHOOSE r \in records :
        /\ floor_timestamp(r.timestamp, interval_ms) = b
        /\ \A q \in records :
               floor_timestamp(q.timestamp, interval_ms) = b => r.timestamp <= q.timestamp

\* buckets[bucket_ts] = ... in a loop over rows ordered by timestamp: the last
\* row of the bucket is the one kept.
last_row(records, interval_ms, b) ==
    CHOOSE r \in records :
        /\ floor_timestamp(r.timestamp, interval_ms) = b
        /\ \A q \in records :
               floor_timestamp(q.timestamp, interval_ms) = b => q.timestamp <= r.timestamp

RECURSIVE sum_rows(_, _)
\* buckets[bucket_ts][field] += float(x or 0) over the rows of a bucket
sum_rows(rows, field) ==
    IF rows = {} THEN 0
    ELSE float_or_0((CHOOSE r \in rows : TRUE)[field])
             + sum_rows(rows \ {CHOOSE r \in rows : TRUE}, field)

bucket_sum(records, interval_ms, b, field) ==
    sum_rows({r \in records : floor_timestamp(r.timestamp, interval_ms) = b}, field)

RECURSIVE compact(_)
\* The values that were appended: the buckets without a value are left out.
compact(opts) ==
    IF opts = <<>> THEN <<>>
    ELSE IF Head(opts).none THEN compact(Tail(opts))
    ELSE <<Head(opts).v>> \o compact(Tail(opts))

\* What a history function returns; min_ts and max_ts are None without rows.
History(values, times) ==
    [values |-> values,
     min_ts |-> IF times = <<>> THEN PyNone ELSE PyNum(times[1]),
     max_ts |-> IF times = <<>> THEN PyNone ELSE PyNum(times[Len(times)])]

\* Lines 197-199: float(oi) if oi else None.
oi_bucket(records, interval_ms, b) ==
    IF float_or_0(last_row(records, interval_ms, b).open_interest) = 0
    THEN PyNone ELSE last_row(records, interval_ms, b).open_interest

\* Lines 204-209: the delta in percent, when both values are there.
oi_delta_value(prev_oi, curr_oi) ==
    IF ~prev_oi.none /\ ~curr_oi.none /\ prev_oi.v # 0
    THEN PyNum(Quot(100000000 * (curr_oi.v - prev_oi.v), prev_oi.v))
    ELSE PyNone

oi_delta_series(records, interval_ms, times) ==
    compact([i \in 1..(Len(times) - 1) |->
                oi_delta_value(oi_bucket(records, interval_ms, times[i]),
                               oi_bucket(records, interval_ms, times[i + 1]))])

\* Lines 178-213.
get_oi_delta_history(records, interval_ms) ==
    History(oi_delta_series(records, interval_ms, bucket_times(records, interval_ms)),
            bucket_times(records, interval_ms))

cvd_series(records, interval_ms, times) ==
    [i \in 1..Len(times) |->
        1000000 * (bucket_sum(records, interval_ms, times[i], "taker_buy_notional")
                   - bucket_sum(records, interval_ms, times[i], "taker_sell_notional"))]

\* Lines 215-246.
get_cvd_history(records, interval_ms) ==
    History(cvd_series(records, interval_ms, bucket_times(records, interval_ms)),
            bucket_times(records, interval_ms))


\* The same with a zero entered for a bucket without asks.
depth_ratio_value_zero(row) ==
    IF float_or_0(row.ask_depth_5) > 0
    THEN PyNum(Quot(1000000 * float_or_0(row.bid_depth_5), float_or_0(row.ask_depth_5)))
    ELSE PyNum(0)

\* Lines 271-276: bid / ask of the last row of each bucket, when ask > 0.
depth_ratio_value(row) ==
    IF float_or_0(row.ask_depth_5) > 0
    THEN PyNum(Quot(1000000 * float_or_0(row.bid_depth_5), float_or_0(row.ask_depth_5)))
    ELSE PyNone

depth_ratio_series(records, interval_ms, times) ==
    compact([i \in 1..Len(times) |-> depth_ratio_value(last_row(records, interval_ms, times[i]))])

\* Lines 248-280.
get_depth_ratio_history(records, interval_ms) ==
    History(depth_ratio_series(records, interval_ms, bucket_times(records, interval_ms)),
            bucket_times(records, interval_ms))

\* Lines 307-311: (bid - ask) / (bid + ask), when bid + ask > 0.
imbalance_value(row) ==
    IF float_or_0(row.bid_depth_5) + float_or_0(row.ask_depth_5) > 0
    THEN PyNum(Quot(1000000 * (float_or_0(row.bid_depth_5) - float_or_0(row.ask_depth_5)),
                    float_or_0(row.bid_depth_5) + float_or_0(row.ask_depth_5)))
    ELSE PyNone

imbalance_series(records, interval_ms, times) ==
    compact([i \in 1..Len(times) |-> imbalance_value(last_row(records, interval_ms, times[i]))])

\* Lines 282-315.
get_imbalance_history(records, interval_ms) ==
    History(imbalance_series(records, interval_ms, bucket_times(records, interval_ms)),
            bucket_times(records, interval_ms))

\* Lines 345-349: buy / sell of the sums of a bucket, when sell > 0.
taker_ratio_value(buy, sell) ==
    IF sell > 0 THEN PyNum(Quot(1000000 * buy, sell)) ELSE PyNone

taker_ratio_series(records, interval_ms, times) ==
    compact([i \in 1..Len(times) |->
                taker_ratio_value(bucket_sum(records, interval_ms, times[i], "taker_buy_notional"),
                                  bucket_sum(records, interval_ms, times[i], "taker_sell_notional"))])

\* Lines 317-353.
get_taker_ratio_history(records, interval_ms) ==
    History(taker_ratio_series(records, interval_ms, bucket_times(records, interval_ms)),
            bucket_times(records, interval_ms))

\* Line 367 and line 397: the column .isnot(None).
not_none(records, field) == {r \in records : ~r[field].none}

\* Line 376: float(funding) * 100; funding_rate is held in millionths.
funding_series(records, interval_ms, times) ==
    [i \in 1..Len(times) |-> 10000 * last_row(records, interval_ms, times[i]).funding_rate.v]

\* Lines 355-383.
get_funding_history(records, interval_ms) ==
    History(funding_series(records, interval_ms, bucket_times(records, interval_ms)),
            bucket_times(records, interval_ms))

\* Line 406: float(oi).
oi_series(records, interval_ms, times) ==
    [i \in 1..Len(times) |-> 1000000 * last_row(records, interval_ms, times[i]).open_interest.v]

\* Lines 385-413.
get_oi_history(records, interval_ms) ==
    History(oi_series(records, interval_ms, bucket_times(records, interval_ms)),
            bucket_times(records, interval_ms))

\* raise ValueError(...) inside analyze_metric's try block
ValueError(message) == [raised |-> TRUE, message |-> message]

\* Lines 171-174, in thousandths of an hour.
time_range_of(history) ==
    IF ~history.min_ts.none /\ history.min_ts.v # 0
       /\ ~history.max_ts.none /\ history.max_ts.v # 0
    THEN Quot(history.max_ts.v - history.min_ts.v, 3600)
    ELSE 0

HistoryResult(history) ==
    [raised |-> FALSE, values |-> history.values, time_range |-> time_range_of(history)]

SupportedMetrics ==
    {"oi_delta", "cvd", "depth_ratio", "order_imbalance", "taker_ratio", "funding", "oi"}

\* Lines 139-169: the history of each metric.
metric_history(tables, symbol, metric, interval_ms, start_time_ms, current_time_ms) ==
    CASE metric = "oi_delta" ->
           get_oi_delta_history(
               query(tables.metrics, symbol, start_time_ms, current_time_ms), interval_ms)
      [] metric = "cvd" ->
           get_cvd_history(
               query(tables.trades, symbol, start_time_ms, current_time_ms), interval_ms)
      [] metric = "depth_ratio" ->
           get_depth_ratio_history(
               query(tables.orderbook, symbol, start_time_ms, current_time_ms), interval_ms)
      [] metric = "order_imbalance" ->
           get_imbalance_history(
               query(tables.orderbook, symbol, start_time_ms, current_time_ms), interval_ms)
      [] metric = "taker_ratio" ->
           get_taker_ratio_history(
               query(tables.trades, symbol, start_time_ms, current_time_ms), interval_ms)
      [] metric = "funding" ->
           get_funding_history(
               not_none(query(tables.metrics, symbol, start_time_ms, current_time_ms),
                        "funding_rate"), interval_ms)
      [] metric = "oi" ->
           get_oi_history(
               not_none(query(tables.metrics, symbol, start_time_ms, current_time_ms),
                        "open_interest"), interval_ms)

MS_PER_DAY == 24 * 60 * 60 * 1000

\* Lines 114-176.
get_metric_history(tables, symbol, metric, period, days, now) ==
    IF period \notin TIMEFRAME_MS THEN ValueError(<<"Unsupported period", period>>)
    ELSE IF metric \notin SupportedMetrics THEN ValueError(<<"Unsupported metric", metric>>)
    ELSE HistoryResult(metric_history(tables, symbol, metric, interval_ms_of(period),
                                      now - days * MS_PER_DAY, now))


-----------------------------------------------------------------------------
(* signal_analysis_service.py: statistics, suggestions and analyze_metric. *)

\* Python's round(x, precision) of a value held in hundredths of the last
\* digit kept: to the nearest, ties to the even one.
py_round(x) ==
    IF x % 100 > 50 THEN (x \div 100) + 1
    ELSE IF x % 100 < 50 THEN x \div 100
    ELSE IF (x \div 100) % 2 = 0 THEN x \div 100 ELSE (x \div 100) + 1

RECURSIVE insert_sorted(_, _)
insert_sorted(sorted, x) ==
    IF sorted = <<>> THEN <<x>>
    ELSE IF x <= Head(sorted) THEN <<x>> \o sorted
    ELSE <<Head(sorted)>> \o insert_sorted(Tail(sorted), x)

RECURSIVE np_sort(_)
\* The array in ascending order, as np.percentile, np.min and np.max see it.
np_sort(arr) ==
    IF arr = <<>> THEN <<>> ELSE insert_sorted(np_sort(Tail(arr)), Head(arr))

\* np.abs
np_abs(arr) == [i \in 1..Len(arr) |-> Abs(arr[i])]

\* np.mean
np_mean(arr) == Quot(SumTo(arr, 1, Len(arr)), Len(arr))

\* gap * r / 100 for gap >= 0, without the product gap * r.
scale_gap(gap, r) == (gap \div 100) * r + (((gap % 100) * r) \div 100)

\* np.percentile(arr, q), linear interpolation between the two neighbours of
\* position (n - 1) * q / 100 of the sorted array.
np_percentile(sorted, q) ==
    IF ((Len(sorted) - 1) * q) % 100 = 0
    THEN sorted[((Len(sorted) - 1) * q) \div 100 + 1]
    ELSE sorted[((Len(sorted) - 1) * q) \div 100 + 1]
         + scale_gap(sorted[((Len(sorted) - 1) * q) \div 100 + 2]
                     - sorted[((Len(sorted) - 1) * q) \div 100 + 1],
                     ((Len(sorted) - 1) * q) % 100)

statistics_of(arr, sorted, sorted_abs) ==
    [mean |-> py_round(np_mean(arr)),
     min |-> py_round(sorted[1]),
     max |-> py_round(sorted[Len(sorted)]),
     abs_percentiles |-> [p75 |-> py_round(np_percentile(sorted_abs, 75)),
                          p90 |-> py_round(np_percentile(sorted_abs, 90)),
                          p95 |-> py_round(np_percentile(sorted_abs, 95)),
                          p99 |-> py_round(np_percentile(sorted_abs, 99))]]

\* Lines 415-432 (std, which nothing below reads, is left out).
calculate_statistics(values) == statistics_of(values, np_sort(values), np_sort(np_abs(values)))

\* The same with p90 and p95 taken from each other's percentile.
generate_suggestions_swapped(stats) ==
    [aggressive |-> [threshold |-> stats.abs_percentiles.p75],
     moderate |-> [threshold |-> stats.abs_percentiles.p95, recommended |-> TRUE],
     conservative |-> [threshold |-> stats.abs_percentiles.p90]]

\* Lines 434-451 (the descriptions are fixed texts).
generate_suggestions(stats) ==
    [aggressive |-> [threshold |-> stats.abs_percentiles.p75],
     moderate |-> [threshold |-> stats.abs_percentiles.p90, recommended |-> TRUE],
     conservative |-> [threshold |-> stats.abs_percentiles.p95]]

\* Lines 72-78.
insufficient_data(n) ==
    [status |-> "insufficient_data",
     message |-> <<"Need at least", MIN_SAMPLES, "samples, found", n>>,
     sample_count |-> n,
     required_samples |-> MIN_SAMPLES]

\* Lines 90-99.
ok_result(symbol, metric, period, values, time_range, stats) ==
    [status |-> "ok", symbol |-> symbol, metric |-> metric, period |-> period,
     sample_count |-> Len(values), time_range_hours |-> time_range,
     statistics |-> stats, suggestions |-> generate_suggestions(stats)]

\* Lines 101-103: result["warning"] = ...
with_warning(res, n) ==
    [k \in DOMAIN res \cup {"warning"} |->
        IF k = "warning" THEN <<"Limited data", n>> ELSE res[k]]

\* Lines 72-105.
analyze_values(symbol, metric, period, values, time_range) ==
    IF Len(values) < MIN_SAMPLES THEN insufficient_data(Len(values))
    ELSE IF Len(values) < LIMITED_DATA_THRESHOLD
    THEN with_warning(ok_result(symbol, metric, period, values, time_range,
                                calculate_statistics(values)), Len(values))
    ELSE ok_result(symbol, metric, period, values, time_range, calculate_statistics(values))

\* Lines 493-502: ratio and volume of the buckets with total > 0 and sell > 0.
taker_volume_ratio(buy, sell) ==
    IF buy + sell > 0 /\ sell > 0 THEN PyNum(Quot(10000 * buy, sell)) ELSE PyNone

taker_volume_total(buy, sell) ==
    IF buy + sell > 0 /\ sell > 0 THEN PyNum(100 * (buy + sell)) ELSE PyNone

ratios_of(records, interval_ms, times) ==
    compact([i \in 1..Len(times) |->
                taker_volume_ratio(bucket_sum(records, interval_ms, times[i], "taker_buy_notional"),
                                   bucket_sum(records, interval_ms, times[i], "taker_sell_notional"))])

volumes_of(records, interval_ms, times) ==
    compact([i \in 1..Len(times) |->
                taker_volume_total(bucket_sum(records, interval_ms, times[i], "taker_buy_notional"),
                                   bucket_sum(records, interval_ms, times[i], "taker_sell_notional"))])

\* Lines 512-519.
ratio_statistics(arr, sorted) ==
    [mean |-> py_round(np_mean(arr)), min |-> py_round(sorted[1]),
     max |-> py_round(sorted[Len(sorted)]),
     p75 |-> py_round(np_percentile(sorted, 75)),
     p90 |-> py_round(np_percentile(sorted, 90)),
     p95 |-> py_round(np_percentile(sorted, 95))]

\* Lines 523-530.
volume_statistics(arr, sorted) ==
    [mean |-> py_round(np_mean(arr)), min |-> py_round(sorted[1]),
     max |-> py_round(sorted[Len(sorted)]),
     p25 |-> py_round(np_percentile(sorted, 25)),
     p50 |-> py_round(np_percentile(sorted, 50)),
     p75 |-> py_round(np_percentile(sorted, 75))]

\* Line 540: f"{interval_ms // 60000}m"
period_label(interval_ms) ==
    CASE interval_ms \div 60000 = 1 -> "1m"
      [] interval_ms \div 60000 = 5 -> "5m"
      [] interval_ms \div 60000 = 15 -> "15m"
      [] interval_ms \div 60000 = 60 -> "60m"

\* Lines 536-557; time_range_hours is rounded to a tenth and held in thousandths.
taker_volume_ok(symbol, interval_ms, times, ratios, ratio_stats, volume_stats) ==
    [status |-> "ok", symbol |-> symbol, metric |-> "taker_volume",
     period |-> period_label(interval_ms),
     sample_count |-> Len(ratios),
     time_range_hours |-> 100 * py_round(Quot(times[Len(times)] - times[1], 3600)),
     ratio_statistics |-> ratio_stats,
     volume_statistics |-> volume_stats,
     suggestions |-> [ratio |-> [aggressive |-> ratio_stats.p75,
                                 moderate |-> ratio_stats.p90,
                                 conservative |-> ratio_stats.p95],
                      volume |-> [low |-> volume_stats.p25,
                                  medium |-> volume_stats.p50,
                                  high |-> volume_stats.p75]]]

\* Lines 504-557.
taker_volume_result(symbol, interval_ms, times, ratios, volumes) ==
    IF Len(ratios) < MIN_SAMPLES
    THEN [status |-> "insufficient_data",
          message |-> <<"Need at least", MIN_SAMPLES, "valid samples">>]
    ELSE taker_volume_ok(symbol, interval_ms, times, ratios,
                         ratio_statistics(ratios, np_sort(ratios)),
                         volume_statistics(volumes, np_sort(volumes)))

\* Lines 483-502.
taker_volume_buckets(records, symbol, interval_ms, times) ==
    IF Len(times) < MIN_SAMPLES
    THEN [status |-> "insufficient_data",
          message |-> <<"Need at least", MIN_SAMPLES, "samples, found", Len(times)>>]
    ELSE taker_volume_result(symbol, interval_ms, times,
                             ratios_of(records, interval_ms, times),
                             volumes_of(records, interval_ms, times))

\* Lines 453-557, on the rows of the query of lines 462-470.
analyze_taker_volume(records, symbol, interval_ms) ==
    IF records = {}
    THEN [status |-> "insufficient_data", message |-> <<"No data available">>]
    ELSE taker_volume_buckets(records, symbol, interval_ms, bucket_times(records, interval_ms))

\* Lines 50-55.
metric_name_map(metric) ==
    CASE metric = "oi_delta_percent" -> "oi_delta"
      [] metric = "funding_rate" -> "funding"
      [] metric = "taker_buy_ratio" -> "taker_ratio"
      [] OTHER -> metric

\* Lines 107-112: except Exception as e.
error_result(e) == [status |-> "error", message |-> e.message]

\* Lines 70-105 with the except clause for what _get_metric_history raises.
analyze_history(symbol, metric, period, history) ==
    IF history.raised THEN error_result(history)
    ELSE analyze_values(symbol, metric, period, history.values, history.time_range)

\* The same without the except clause: the exception leaves analyze_metric.
analyze_mapped_uncaught(tables, symbol, metric, period, days, now) ==
    IF metric = "taker_volume"
    THEN IF period \notin TIMEFRAME_MS
         THEN [status |-> "raised", message |-> <<"Unsupported period", period>>]
         ELSE analyze_taker_volume(
                  query(tables.trades, symbol, now - days * MS_PER_DAY, now),
                  symbol, interval_ms_of(period))
    ELSE IF get_metric_history(tables, symbol, metric, period, days, now).raised
    THEN [status |-> "raised",
          message |-> get_metric_history(tables, symbol, metric, period, days, now).message]
    ELSE analyze_history(symbol, metric, period,
                         get_metric_history(tables, symbol, metric, period, days, now))

\* Lines 57-112, after the metric name is mapped.
analyze_mapped(tables, symbol, metric, period, days, now) ==
    IF metric = "taker_volume"
    THEN IF period \notin TIMEFRAME_MS
         THEN error_result(ValueError(<<"Unsupported period", period>>))
         ELSE analyze_taker_volume(
                  query(tables.trades, symbol, now - days * MS_PER_DAY, now),
                  symbol, interval_ms_of(period))
    ELSE analyze_history(symbol, metric, period,
                         get_metric_history(tables, symbol, metric, period, days, now))

\* Lines 27-112.
analyze_metric(tables, symbol, metric, period, days, now) ==
    analyze_mapped(tables, symbol, metric_name_map(metric), period, days, now)


-----------------------------------------------------------------------------
(* The analyzer on collected market data: the collectors append one 5m bucket
   of rows at a time to the three tables, and analyze_metric or
   _get_metric_history is called on what has been stored. *)

MaxBuckets == 11
MaxVaried == 3

BUCKET_MS == 300000
AnalyzeDays == 1
\* The clock of the calls: the window of one day starts at bucket 2.
AnalyzeNow == AnalyzeDays * MS_PER_DAY + 2 * BUCKET_MS
FirstBucket == 2

TradeRow(symbol, ts, buy, sell) ==
    [symbol |-> symbol, timestamp |-> ts,
     taker_buy_notional |-> buy, taker_sell_notional |-> sell]
BookRow(symbol, ts, bid, ask) ==
    [symbol |-> symbol, timestamp |-> ts, bid_depth_5 |-> bid, ask_depth_5 |-> ask]
MetricRow(symbol, ts, oi, funding) ==
    [symbol |-> symbol, timestamp |-> ts, open_interest |-> oi, funding_rate |-> funding]

Cycle3(i, a, b, c) == IF i % 3 = 0 THEN a ELSE IF i % 3 = 1 THEN b ELSE c

BucketShapes == {"regular", "no_sell", "empty", "double"}

TradesOf(i, shape) ==
    CASE shape = "regular" ->
           {TradeRow("BTC", i * BUCKET_MS, PyNum(Cycle3(i, 1, 4, 2)), PyNum(Cycle3(i, 4, 1, 1)))}
      [] shape = "no_sell" ->
           {TradeRow("BTC", i * BUCKET_MS, PyNum(1), PyNum(0))}
      [] shape = "empty" ->
           {TradeRow("BTC", i * BUCKET_MS, PyNone, PyNone)}
      [] shape = "double" ->
           {TradeRow("BTC", i * BUCKET_MS, PyNum(1), PyNum(1)),
            TradeRow("BTC", i * BUCKET_MS + 1000, PyNum(4), PyNum(1))}

BooksOf(i, shape) ==
    CASE shape = "regular" ->
           {BookRow("BTC", i * BUCKET_MS, PyNum(Cycle3(i, 4, 1, 1)), PyNum(Cycle3(i, 1, 4, 1)))}
      [] shape = "no_sell" ->
           {BookRow("BTC", i * BUCKET_MS, PyNum(1), PyNum(0))}
      [] shape = "empty" ->
           {BookRow("BTC", i * BUCKET_MS, PyNone, PyNone)}
      [] shape = "double" ->
           {BookRow("BTC", i * BUCKET_MS, PyNum(1), PyNum(0)),
            BookRow("BTC", i * BUCKET_MS + 1000, PyNum(1), PyNum(4))}

MetricsOf(i, shape) ==
    CASE shape = "regular" ->
           {MetricRow("BTC", i * BUCKET_MS, PyNum(Cycle3(i, 100, 110, 99)),
                      PyNum(Cycle3(i, 125, 0 - 50, 10)))}
      [] shape = "no_sell" ->
           {MetricRow("BTC", i * BUCKET_MS, PyNum(0), PyNum(0))}
      [] shape = "empty" ->
           {MetricRow("BTC", i * BUCKET_MS, PyNone, PyNone)}
      [] shape = "double" ->
           {MetricRow("BTC", i * BUCKET_MS, PyNum(99), PyNum(10)),
            MetricRow("BTC", i * BUCKET_MS + 1000, PyNum(110), PyNum(125))}

\* Rows no call below may read: one before the window, one of another symbol.
OtherMarket ==
    [trades |-> {TradeRow("BTC", BUCKET_MS, PyNum(4), PyNum(1)),
                 TradeRow("ETH", FirstBucket * BUCKET_MS, PyNum(4), PyNum(1))},
     orderbook |-> {BookRow("BTC", BUCKET_MS, PyNum(4), PyNum(1)),
                    BookRow("ETH", FirstBucket * BUCKET_MS, PyNum(4), PyNum(1))},
     metrics |-> {MetricRow("BTC", BUCKET_MS, PyNum(100), PyNum(125)),
                  MetricRow("ETH", FirstBucket * BUCKET_MS, PyNum(100), PyNum(125))}]

\* The trade rows of BTC inside the window of the calls.
Collected(tables) == query(tables.trades, "BTC", AnalyzeNow - AnalyzeDays * MS_PER_DAY, AnalyzeNow)
\* The number of buckets collected so far.
BucketCount(tables) == Cardinality({floor_timestamp(r.timestamp, BUCKET_MS) : r \in Collected(tables)})

AnalyzeMetrics ==
    SupportedMetrics \cup {"taker_volume", "oi_delta_percent", "funding_rate",
                           "taker_buy_ratio", "volume"}
AnalyzePeriods == {"5m", "15m", "2h"}

InitAnalyze ==
    /\ configs = {}
    /\ klines = {}
    /\ flow = {}
    /\ market \in {NoMarket, OtherMarket}
    /\ input = NoCall
    /\ result = NoResult

\* One more bucket of rows arrives in the three tables.
CollectBucket ==
    /\ input = NoCall
    /\ BucketCount(market) < MaxBuckets
    /\ \E shape \in (IF BucketCount(market) < MaxVaried THEN BucketShapes ELSE {"regular"}) :
          market' = [trades |-> market.trades
                                  \cup TradesOf(FirstBucket + BucketCount(market), shape),
                     orderbook |-> market.orderbook
                                  \cup BooksOf(FirstBucket + BucketCount(market), shape),
                     metrics |-> market.metrics
                                  \cup MetricsOf(FirstBucket + BucketCount(market), shape)]
    /\ UNCHANGED <<configs, klines, flow, input, result>>

AnalyzeMetric ==
    /\ input = NoCall
    /\ \E metric \in AnalyzeMetrics, period \in AnalyzePeriods :
          /\ input' = [op |-> "analyze_metric", symbol |-> "btc", metric |-> metric,
                       period |-> period, days |-> AnalyzeDays, now |-> AnalyzeNow]
          /\ result' = analyze_metric(market, "btc", metric, period, AnalyzeDays, AnalyzeNow)
    /\ UNCHANGED <<market, configs, klines, flow>>

GetMetricHistory ==
    /\ input = NoCall
    /\ \E metric \in SupportedMetrics :
          /\ input' = [op |-> "get_metric_history", symbol |-> "BTC", metric |-> metric,
                       period |-> "5m", days |-> AnalyzeDays, now |-> AnalyzeNow]
          /\ result' = get_metric_history(market, "BTC", metric, "5m", AnalyzeDays, AnalyzeNow)
    /\ UNCHANGED <<market, configs, klines, flow>>

NextAnalyze == CollectBucket \/ AnalyzeMetric \/ GetMetricHistory

SpecAnalyze == InitAnalyze /\ [][NextAnalyze]_vars


-----------------------------------------------------------------------------
(* Claims about the analyzer. *)

AnalyzeCall == input.op = "analyze_metric"
\* The call names a metric and a period the analyzer supports.
SupportedCall ==
    /\ AnalyzeCall
    /\ metric_name_map(input.metric) \in SupportedMetrics \cup {"taker_volume"}
    /\ input.period \in TIMEFRAME_MS

WindowRows(table, a) == query(table, a.symbol, a.now - a.days * MS_PER_DAY, a.now)

\* The samples a call finds: the values of the metric's series, the valid
\* ratios for taker_volume.
SeriesLength(tables, a, metric, rows, interval_ms) ==
    IF metric = "taker_volume"
    THEN Len(ratios_of(rows, interval_ms, bucket_times(rows, interval_ms)))
    ELSE Len(metric_history(tables, a.symbol, metric, interval_ms,
                            a.now - a.days * MS_PER_DAY, a.now).values)

UsableSamples(tables, a) ==
    SeriesLength(tables, a, metric_name_map(a.metric), WindowRows(tables.trades, a),
                 interval_ms_of(a.period))

StatisticsKeys == {"statistics", "ratio_statistics", "volume_statistics", "suggestions"}

\* C15: for every supported metric, taker_volume included, analyze_metric
\* returns insufficient_data exactly when fewer than 3 usable samples are found,
\* and every insufficient_data result reports the found count and the required
\* count (3) and holds no statistics and no suggestions.
C15_InsufficientDataReportsCounts ==
    SupportedCall =>
        /\ (result.status = "insufficient_data") <=> (UsableSamples(market, input) < 3)
        /\ result.status = "insufficient_data" =>
              /\ {"sample_count", "required_samples"} \subseteq DOMAIN result
              /\ result.sample_count = UsableSamples(market, input)
              /\ result.required_samples = 3
              /\ DOMAIN result \cap StatisticsKeys = {}

\* C16: for every supported metric, taker_volume included, an ok result with 3
\* to 9 samples carries a limited-data warning and an ok result with 10 or more
\* samples carries none.
C16_LimitedDataWarning ==
    (SupportedCall /\ result.status = "ok") =>
        /\ result.sample_count \in 3..9 => "warning" \in DOMAIN result
        /\ result.sample_count >= 10 => "warning" \notin DOMAIN result

\* The table a metric is read from.
TableOf(tables, metric) ==
    IF metric \in {"cvd", "taker_ratio", "taker_volume"} THEN tables.trades
    ELSE IF metric \in {"depth_ratio", "order_imbalance"} THEN tables.orderbook
    ELSE tables.metrics

\* The rows a call reads, and the time buckets they fall into.
CallRows(tables, a) == WindowRows(TableOf(tables, metric_name_map(a.metric)), a)
DistinctBuckets(rows, interval_ms) == {floor_timestamp(r.timestamp, interval_ms) : r \in rows}

\* Every number of the row is there, and positive where it is a quantity.
ValidRow(r) ==
    \A f \in DOMAIN r \ {"symbol", "timestamp"} :
        /\ ~r[f].none
        /\ f # "funding_rate" => r[f].v > 0

\* C17: for every supported metric, events in exactly 2 distinct time buckets
\* give insufficient_data, and events with valid values in exactly 3 distinct
\* time buckets give ok.
C17_SampleGate ==
    SupportedCall =>
        /\ Cardinality(DistinctBuckets(CallRows(market, input), interval_ms_of(input.period))) = 2
              => result.status = "insufficient_data"
        /\ (/\ Cardinality(DistinctBuckets(CallRows(market, input),
                                           interval_ms_of(input.period))) = 3
            /\ \A r \in CallRows(market, input) : ValidRow(r))
              => result.status = "ok"


\* The series a call of the generic path is computed from.
SeriesOfCall(tables, a) ==
    metric_history(tables, a.symbol, metric_name_map(a.metric), interval_ms_of(a.period),
                   a.now - a.days * MS_PER_DAY, a.now).values

Threshold(suggestions, name) == suggestions[name].threshold

\* The three thresholds are the rounded percentiles of the sorted absolute
\* values, and only the moderate one is marked recommended.
SuggestionsOfSeries(suggestions, sorted_abs) ==
    /\ Threshold(suggestions, "aggressive") = py_round(np_percentile(sorted_abs, 75))
    /\ Threshold(suggestions, "moderate") = py_round(np_percentile(sorted_abs, 90))
    /\ Threshold(suggestions, "conservative") = py_round(np_percentile(sorted_abs, 95))
    /\ "recommended" \in DOMAIN suggestions.moderate /\ suggestions.moderate.recommended
    /\ "recommended" \notin DOMAIN suggestions.aggressive
    /\ "recommended" \notin DOMAIN suggestions.conservative

Ordered(a, b, c) == a <= b /\ b <= c

\* C18: in every ok result the suggested thresholds are aggressive = p75,
\* moderate = p90 (the only one marked recommended) and conservative = p95 of
\* the absolute values of the series, with aggressive <= moderate <=
\* conservative after rounding; for taker_volume the ratio suggestions are
\* ordered aggressive <= moderate <= conservative and the volume suggestions
\* low <= medium <= high.
C18_SuggestionsOrdered ==
    (AnalyzeCall /\ result.status = "ok") =>
        IF result.metric = "taker_volume"
        THEN /\ Ordered(result.suggestions.ratio.aggressive, result.suggestions.ratio.moderate,
                        result.suggestions.ratio.conservative)
             /\ Ordered(result.suggestions.volume.low, result.suggestions.volume.medium,
                        result.suggestions.volume.high)
        ELSE /\ SuggestionsOfSeries(result.suggestions, np_sort(np_abs(SeriesOfCall(market, input))))
             /\ Ordered(Threshold(result.suggestions, "aggressive"),
                        Threshold(result.suggestions, "moderate"),
                        Threshold(result.suggestions, "conservative"))

\* An ok result of the generic path whose three thresholds differ.
C18_Witness ==
    /\ AnalyzeCall
    /\ result.status = "ok"
    /\ result.metric # "taker_volume"
    /\ Threshold(result.suggestions, "aggressive") < Threshold(result.suggestions, "moderate")
    /\ Threshold(result.suggestions, "moderate") < Threshold(result.suggestions, "conservative")

\* C19: analyze_metric never raises: every call returns a result whose status
\* is ok, insufficient_data or error, and an unsupported timeframe or metric
\* name gives status error with a message, for taker_volume as well.
C19_NeverRaises ==
    AnalyzeCall =>
        /\ result.status \in {"ok", "insufficient_data", "error"}
        /\ (\/ input.period \notin TIMEFRAME_MS
            \/ metric_name_map(input.metric) \notin SupportedMetrics \cup {"taker_volume"})
              => /\ result.status = "error"
                 /\ "message" \in DOMAIN result
                 /\ Len(result.message) > 0

\* taker_volume asked for an unsupported timeframe: an error result.
C19_Witness ==
    /\ AnalyzeCall
    /\ input.metric = "taker_volume"
    /\ input.period \notin TIMEFRAME_MS
    /\ result.status = "error"

\* Numerator and denominator of the ratio metrics in bucket b.
Denominator(rows, interval_ms, metric, b) ==
    CASE metric = "depth_ratio" -> float_or_0(last_row(rows, interval_ms, b).ask_depth_5)
      [] metric = "order_imbalance" ->
           float_or_0(last_row(rows, interval_ms, b).bid_depth_5)
           + float_or_0(last_row(rows, interval_ms, b).ask_depth_5)
      [] metric = "taker_ratio" -> bucket_sum(rows, interval_ms, b, "taker_sell_notional")

Numerator(rows, interval_ms, metric, b) ==
    CASE metric = "depth_ratio" -> float_or_0(last_row(rows, interval_ms, b).bid_depth_5)
      [] metric = "order_imbalance" ->
           float_or_0(last_row(rows, interval_ms, b).bid_depth_5)
           - float_or_0(last_row(rows, interval_ms, b).ask_depth_5)
      [] metric = "taker_ratio" -> bucket_sum(rows, interval_ms, b, "taker_buy_notional")

\* The buckets whose denominator is positive.
GoodBuckets(rows, interval_ms, metric) ==
    {b \in DistinctBuckets(rows, interval_ms) : Denominator(rows, interval_ms, metric, b) > 0}

RatioSeries(rows, interval_ms, metric, good) ==
    [i \in 1..Len(good) |->
        Quot(1000000 * Numerator(rows, interval_ms, metric, good[i]),
             Denominator(rows, interval_ms, metric, good[i]))]

\* The bucket before b, and the OI stored last in a bucket (0 when missing).
PreviousBucket(buckets, b) == CHOOSE p \in buckets : p < b /\ \A q \in buckets : q < b => q <= p
BucketOI(rows, interval_ms, b) == float_or_0(last_row(rows, interval_ms, b).open_interest)

\* The buckets with an OI of their own and a previous bucket with a non-zero OI.
GoodDeltaBuckets(rows, interval_ms, buckets) ==
    {b \in buckets :
        /\ \E p \in buckets : p < b
        /\ BucketOI(rows, interval_ms, PreviousBucket(buckets, b)) # 0
        /\ BucketOI(rows, interval_ms, b) # 0}

DeltaSeries(rows, interval_ms, buckets, good) ==
    [i \in 1..Len(good) |->
        Quot(100000000 * (BucketOI(rows, interval_ms, good[i])
                          - BucketOI(rows, interval_ms, PreviousBucket(buckets, good[i]))),
             BucketOI(rows, interval_ms, PreviousBucket(buckets, good[i])))]

RatioMetrics == {"depth_ratio", "order_imbalance", "taker_ratio"}

\* The series of a metric with a denominator, made of the good buckets only.
GuardedSeries(rows, interval_ms, metric) ==
    IF metric = "oi_delta"
    THEN DeltaSeries(rows, interval_ms, DistinctBuckets(rows, interval_ms),
                     SortedTimes(GoodDeltaBuckets(rows, interval_ms,
                                                  DistinctBuckets(rows, interval_ms))))
    ELSE RatioSeries(rows, interval_ms, metric,
                     SortedTimes(GoodBuckets(rows, interval_ms, metric)))

HistoryCall == input.op = "get_metric_history"

\* C20: no series value is computed with a zero or non-positive denominator:
\* depth_ratio only with ask > 0, taker_ratio and taker_volume only with
\* sell > 0, order_imbalance only with bid + ask > 0, oi_delta only with a
\* previous OI that is present and non-zero; a bucket failing the condition is
\* dropped from the series and never entered as 0.
C20_DenominatorGuards ==
    /\ (HistoryCall /\ input.metric \in RatioMetrics \cup {"oi_delta"}) =>
           result.values = GuardedSeries(CallRows(market, input),
                                         interval_ms_of(input.period), input.metric)
    /\ (AnalyzeCall /\ input.metric = "taker_volume" /\ result.status = "ok") =>
           result.sample_count =
               Cardinality(GoodBuckets(CallRows(market, input), interval_ms_of(input.period),
                                       "taker_ratio"))

\* A depth_ratio series that is shorter than the number of buckets because a
\* bucket has no asks.
C20_Witness ==
    /\ HistoryCall
    /\ input.metric = "depth_ratio"
    /\ \E b \in DistinctBuckets(CallRows(market, input), BUCKET_MS) :
           Denominator(CallRows(market, input), BUCKET_MS, "depth_ratio", b) = 0
    /\ Len(result.values) >= 1
    /\ Len(result.values) < Cardinality(DistinctBuckets(CallRows(market, input), BUCKET_MS))


-----------------------------------------------------------------------------
(* The whole classification of an indicator vector: regime, reason, direction
   and confidence as get_market_regime computes them (lines 363-374), on the
   end-to-end scenario of the spec and on the grid of vectors. *)

\* The last bar of the scenario; its ATR is 200 (200000 thousandths).
ScenarioBar == Bar(50000, 50450, 49950, 50400)
\* The values the scenario leaves open.
ScenarioTakerValues == {0 - 3600, 0 - 600, 0 - 1, 0, 1, 600, 3600}
ScenarioRsiValues == {0, 25000, 50000, 75000, 100000}

\* The vector of the scenario: price metrics of the bar, cvd_ratio 0.22,
\* oi_delta 0.5.
ScenarioVector(t, r) ==
    Vector(220, t, 500,
           price_ratios(<<ScenarioBar>>, 200000, r).price_atr, r,
           price_ratios(<<ScenarioBar>>, 200000, r).price_range_atr)

ScenarioVectors == {ScenarioVector(t, r) : t \in ScenarioTakerValues, r \in ScenarioRsiValues}

\* The flow values of a vector, as extract_flow hands them on.
FlowOf(v) ==
    [error |-> "", cvd_ratio |-> v.cvd_ratio, taker_log_ratio |-> v.taker_log_ratio,
     taker_ratio |-> 1000, oi_delta |-> PyNum(v.oi_delta)]

PriceOf(v) == [price_atr |-> v.price_atr, price_range_atr |-> v.price_range_atr, rsi |-> v.rsi]

\* Lines 363-398 on a vector.
classification(v, config) == classify_metrics(config, FlowOf(v), PriceOf(v))

InitScenario ==
    /\ configs \in {migrate({}), migrate(migrate({})), {TunedConfig}}
    /\ klines = {}
    /\ flow = {}
    /\ market = NoMarket
    /\ input \in [vec : ScenarioVectors \cup ClassifyVectors]
    /\ result = NoResult

Classify ==
    /\ result = NoResult
    /\ \E config \in configs :
          result' = [op |-> "classify", config |-> config] @@ classification(input.vec, config)
    /\ UNCHANGED <<market, configs, klines, flow, input>>

NextScenario == Classify

SpecScenario == InitScenario /\ [][NextScenario]_vars

Classified == result.op = "classify"

\* The call is the scenario with a default config the migration created.
ScenarioCall ==
    /\ Classified
    /\ input.vec \in ScenarioVectors
    /\ result.config.is_default

\* C21: with the default config created by the migration and price_atr = 2.0,
\* price_range_atr = 2.5, cvd_ratio = 0.22, oi_delta = 0.5 the classification
\* is breakout and bullish for every taker_log_ratio and rsi.
C21_ScenarioBreakoutBullish ==
    ScenarioCall => result.regime = REGIME_BREAKOUT /\ result.direction = DIRECTION_BULLISH

\* C21 as the code has it: breakout for every taker_log_ratio and rsi; bullish
\* when taker_log_ratio is not negative, neutral when it is.
C21_ScenarioBreakout ==
    ScenarioCall =>
        /\ input.vec.price_atr = 2000 /\ input.vec.price_range_atr = 2500
        /\ result.regime = REGIME_BREAKOUT
        /\ result.reason = "Bullish breakout with aligned signals"
        /\ result.direction = IF input.vec.taker_log_ratio >= 0
                              THEN DIRECTION_BULLISH ELSE DIRECTION_NEUTRAL

\* The scenario with sellers dominating the taker flow: breakout, neutral.
C21_Witness ==
    /\ ScenarioCall
    /\ result.config = InsertedDefaultConfig
    /\ input.vec.taker_log_ratio < 0
    /\ result.regime = REGIME_BREAKOUT
    /\ result.direction = DIRECTION_NEUTRAL


-----------------------------------------------------------------------------
(* calculate_price_metrics on stored bars, with every outcome of the indicator
   computation: calculate_indicators returns the computed lists, None for an
   indicator whose computation raised (lines 72-74 of technical_indicators.py)
   or {} when the whole computation raised (lines 76-78). *)

\* A bar that does not move: the true range and the close changes are 0.
FlatBar == Bar(50000, 50000, 50000, 50000)

MetricsPatterns == {"quiet", "falling", "flat", "breakout"}

MetricsBar(pattern, i, n) ==
    CASE pattern = "quiet" -> QuietBar(i)
      [] pattern = "falling" -> FallingBar(i)
      [] pattern = "flat" -> FlatBar
      [] pattern = "breakout" -> IF i = n THEN BreakoutBar ELSE QuietBar(i)

MetricsSeries(pattern, n) == {KlineRow("BTC", "5m", i, MetricsBar(pattern, i, n)) : i \in 1..n}

IndicatorOutcomes == {"computed", "atr_raised", "rsi_raised", "both_raised", "all_raised"}

\* What calculate_indicators returns under an outcome.  None and [] are both
\* falsy in `atr_values[-1] if atr_values else 0.0`: None is held as <<>>.
indicators_under(outcome, computed) ==
    CASE outcome = "computed" -> computed
      [] outcome = "atr_raised" -> [computed EXCEPT !.ATR14 = <<>>]
      [] outcome = "rsi_raised" -> [computed EXCEPT !.RSI14 = <<>>]
      [] outcome = "both_raised" -> [ATR14 |-> <<>>, RSI14 |-> <<>>]
      [] outcome = "all_raised" -> <<>>

\* The same reading the first bar of the list.
price_metrics_first_bar(kline_data, outcome) ==
    IF Len(kline_data) < MIN_BARS
    THEN [price_atr |-> 0, price_range_atr |-> 0, rsi |-> 50000]
    ELSE indicator_metrics(<<kline_data[1]>>,
                           indicators_under(outcome, calculate_indicators(kline_data)))

\* Lines 229-263 under an outcome of calculate_indicators.
price_metrics_under(kline_data, outcome) ==
    IF Len(kline_data) < MIN_BARS
    THEN [price_atr |-> 0, price_range_atr |-> 0, rsi |-> 50000]
    ELSE indicator_metrics(kline_data,
                           indicators_under(outcome, calculate_indicators(kline_data)))

MetricsBars == (MIN_BARS - 2)..(MIN_BARS + MaxInsert)

InitMetrics ==
    /\ configs = {}
    /\ \E pattern \in MetricsPatterns, n \in MetricsBars : klines = MetricsSeries(pattern, n)
    /\ flow = {}
    /\ market = NoMarket
    /\ input = NoCall
    /\ result = NoResult

\* One more bar is stored.
StoreBar ==
    /\ input = NoCall
    /\ Cardinality(klines) < MIN_BARS + MaxInsert
    /\ \E bar \in {BreakoutBar, SpikeBar, FlatBar} :
          klines' = klines \cup {KlineRow("BTC", "5m", Cardinality(klines) + 1, bar)}
    /\ UNCHANGED <<market, configs, flow, input, result>>

PriceMetrics ==
    /\ input = NoCall
    /\ \E outcome \in IndicatorOutcomes :
          /\ input' = [op |-> "calculate_price_metrics", outcome |-> outcome,
                       kline_data |-> fetch_kline_data(klines, "BTC", "5m", KLINE_LIMIT, PyNone)]
          /\ result' = price_metrics_under(
                           fetch_kline_data(klines, "BTC", "5m", KLINE_LIMIT, PyNone), outcome)
    /\ UNCHANGED <<market, configs, klines, flow>>

NextMetrics == StoreBar \/ PriceMetrics

SpecMetrics == InitMetrics /\ [][NextMetrics]_vars

MetricsCall == input.op = "calculate_price_metrics" /\ "outcome" \in DOMAIN input

LastBar(kline_data) == kline_data[Len(kline_data)]

\* The 14-period ATR of the last bar, 0 when it was not computed.
LatestATR(kline_data, outcome) ==
    IF outcome \in {"computed", "rsi_raised"}
    THEN calculate_atr(kline_data, ATR_LENGTH)[Len(kline_data)] ELSE 0

\* The metrics of a list of at least 15 bars, from its last bar and the ATR.
ExpectedMetrics(result_, bar, atr, rsi_missing) ==
    /\ atr > 0 =>
          /\ result_.price_atr = Quot(1000000 * (bar.close - bar.open), atr)
          /\ result_.price_range_atr = Quot(1000000 * (bar.high - bar.low), atr)
    /\ atr <= 0 => result_.price_atr = 0 /\ result_.price_range_atr = 0
    /\ rsi_missing => result_.rsi = 50000

\* C22: for at least 15 bars with a positive 14-period ATR,
\* calculate_price_metrics returns price_atr = (close - open) / ATR and
\* price_range_atr = (high - low) / ATR of the most recent bar; with an ATR
\* that is zero, missing or failed to compute it returns 0 and 0 (and rsi = 50
\* when the RSI is missing), without raising.
C22_PriceMetricsOfLastBar ==
    (MetricsCall /\ Len(input.kline_data) >= MIN_BARS) =>
        ExpectedMetrics(result, LastBar(input.kline_data),
                        LatestATR(input.kline_data, input.outcome),
                        input.outcome \in {"rsi_raised", "both_raised", "all_raised"})

\* The breakout bar after 14 quiet bars: ATR 200, price_atr 2.0, range 2.5.
C22_Witness ==
    /\ MetricsCall
    /\ Len(input.kline_data) >= MIN_BARS
    /\ input.outcome = "computed"
    /\ LastBar(input.kline_data).close # LastBar(input.kline_data).open
    /\ result.price_atr = 2000 /\ result.price_range_atr = 2500

-----------------------------------------------------------------------------
(* Lines 342-358 of get_market_regime on numeric flow values: the taker buy and
   sell notionals and the current CVD, each negative, zero or positive. *)

FlowValues == {0 - 610, 0 - 390, 0, 390, 610}

InitFlow ==
    /\ configs = {}
    /\ klines = {}
    /\ flow = {}
    /\ market = NoMarket
    /\ input \in [buy : FlowValues, sell : FlowValues, cvd : FlowValues]
    /\ result = NoResult

ExtractFlow ==
    /\ result = NoResult
    /\ result' = [op |-> "extract_flow"] @@
                 extract_flow(EntryDict(Cur(input.cvd)), EntryDict(Taker(input.buy, input.sell)),
                              EntryNone)
    /\ UNCHANGED <<market, configs, klines, flow, input>>

NextFlow == ExtractFlow

SpecFlow == InitFlow /\ [][NextFlow]_vars

Extracted == result.op = "extract_flow"

TotalNotional == input.buy + input.sell

-----------------------------------------------------------------------------
(* The analyzer on events that share buckets: of every four events the first
   two fall into one 5-minute bucket, the first three into one 15-minute
   bucket and all four into one hour.  The series are read at 5m, 15m and 1h. *)

MaxEvents == 9
HOUR_MS == 12 * BUCKET_MS

\* The time of the k-th event, k = 1, 2, ...
EventTime(k) ==
    ((k - 1) \div 4 + 1) * HOUR_MS
      + (CASE k % 4 = 1 -> 0
           [] k % 4 = 2 -> 1000
           [] k % 4 = 3 -> 2 * BUCKET_MS
           [] k % 4 = 0 -> 4 * BUCKET_MS)

EventShapes == {"regular", "sold", "null"}

EventTrades(k, shape) ==
    CASE shape = "regular" ->
           TradeRow("BTC", EventTime(k), PyNum(Cycle3(k, 2, 4, 3)), PyNum(Cycle3(k, 1, 1, 2)))
      [] shape = "sold" -> TradeRow("BTC", EventTime(k), PyNum(0), PyNum(3))
      [] shape = "null" -> TradeRow("BTC", EventTime(k), PyNone, PyNone)

EventBooks(k, shape) ==
    CASE shape = "regular" ->
           BookRow("BTC", EventTime(k), PyNum(Cycle3(k, 2, 4, 3)), PyNum(Cycle3(k, 1, 1, 2)))
      [] shape = "sold" -> BookRow("BTC", EventTime(k), PyNum(0), PyNum(3))
      [] shape = "null" -> BookRow("BTC", EventTime(k), PyNone, PyNone)

EventMetrics(k, shape) ==
    CASE shape = "regular" ->
           MetricRow("BTC", EventTime(k), PyNum(Cycle3(k, 99, 100, 110)),
                     PyNum(Cycle3(k, 10, 125, 0 - 50)))
      [] shape = "sold" -> MetricRow("BTC", EventTime(k), PyNum(90), PyNum(0 - 125))
      [] shape = "null" -> MetricRow("BTC", EventTime(k), PyNone, PyNone)

\* The number of events collected so far.
EventCount(tables) == Cardinality(Collected(tables))

SeriesPeriods == {"5m", "15m", "1h"}

\* One more event arrives in the three tables.
CollectEvent ==
    /\ input = NoCall
    /\ EventCount(market) < MaxEvents
    /\ \E shape \in (IF EventCount(market) < MaxVaried THEN EventShapes ELSE {"regular"}) :
          market' = [trades |-> market.trades \cup {EventTrades(EventCount(market) + 1, shape)},
                     orderbook |-> market.orderbook
                                     \cup {EventBooks(EventCount(market) + 1, shape)},
                     metrics |-> market.metrics
                                     \cup {EventMetrics(EventCount(market) + 1, shape)}]
    /\ UNCHANGED <<configs, klines, flow, input, result>>

GetSeries ==
    /\ input = NoCall
    /\ \E metric \in SupportedMetrics, period \in SeriesPeriods :
          /\ input' = [op |-> "get_metric_history", symbol |-> "BTC", metric |-> metric,
                       period |-> period, days |-> AnalyzeDays, now |-> AnalyzeNow]
          /\ result' = get_metric_history(market, "BTC", metric, period, AnalyzeDays, AnalyzeNow)
    /\ UNCHANGED <<market, configs, klines, flow>>

AnalyzeSeries ==
    /\ input = NoCall
    /\ \E metric \in AnalyzeMetrics, period \in SeriesPeriods :
          /\ input' = [op |-> "analyze_metric", symbol |-> "BTC", metric |-> metric,
                       period |-> period, days |-> AnalyzeDays, now |-> AnalyzeNow]
          /\ result' = analyze_metric(market, "BTC", metric, period, AnalyzeDays, AnalyzeNow)
    /\ UNCHANGED <<market, configs, klines, flow>>

NextSeries == CollectEvent \/ GetSeries \/ AnalyzeSeries

SpecSeries == InitAnalyze /\ [][NextSeries]_vars

\* The bucket of a timestamp and the events of a bucket.
BucketOf(ts, interval_ms) == interval_ms * (ts \div interval_ms)
EventsOf(rows, interval_ms, b) == {r \in rows : BucketOf(r.timestamp, interval_ms) = b}
BucketsOf(rows, interval_ms) == {BucketOf(r.timestamp, interval_ms) : r \in rows}
Earliest(buckets) == CHOOSE b \in buckets : \A c \in buckets : b <= c
Latest(events) == CHOOSE r \in events : \A q \in events : q.timestamp <= r.timestamp
NumberOf(x) == IF x.none THEN 0 ELSE x.v

RECURSIVE Total(_, _)
\* The sum of a field over the events of a bucket.
Total(events, field) ==
    IF events = {} THEN 0
    ELSE NumberOf(Latest(events)[field]) + Total(events \ {Latest(events)}, field)

\* The events of a metric: funding and oi read only the rows that hold a value.
MetricEvents(metric, rows) ==
    CASE metric = "funding" -> {r \in rows : ~r.funding_rate.none}
      [] metric = "oi" -> {r \in rows : ~r.open_interest.none}
      [] OTHER -> rows

SumRatio(buy, sell, scale) == IF sell > 0 THEN PyNum(Quot(scale * buy, sell)) ELSE PyNone
SumVolume(buy, sell) == IF sell > 0 THEN PyNum(100 * (buy + sell)) ELSE PyNone
LevelRatio(num, den) == IF den > 0 THEN PyNum(Quot(1000000 * num, den)) ELSE PyNone

\* What a bucket gives to the series: sums for the notional metrics, the latest
\* event for the level metrics (in the units of the series).
BucketValue(metric, events) ==
    CASE metric = "cvd" ->
           PyNum(1000000 * (Total(events, "taker_buy_notional")
                            - Total(events, "taker_sell_notional")))
      [] metric = "taker_ratio" ->
           SumRatio(Total(events, "taker_buy_notional"),
                    Total(events, "taker_sell_notional"), 1000000)
      [] metric = "taker_volume_ratio" ->
           SumRatio(Total(events, "taker_buy_notional"),
                    Total(events, "taker_sell_notional"), 10000)
      [] metric = "taker_volume_total" ->
           SumVolume(Total(events, "taker_buy_notional"), Total(events, "taker_sell_notional"))
      [] metric = "depth_ratio" ->
           LevelRatio(NumberOf(Latest(events).bid_depth_5), NumberOf(Latest(events).ask_depth_5))
      [] metric = "order_imbalance" ->
           LevelRatio(NumberOf(Latest(events).bid_depth_5) - NumberOf(Latest(events).ask_depth_5),
                      NumberOf(Latest(events).bid_depth_5) + NumberOf(Latest(events).ask_depth_5))
      [] metric = "funding" -> PyNum(10000 * Latest(events).funding_rate.v)
      [] metric = "oi" -> PyNum(1000000 * Latest(events).open_interest.v)
      [] metric = "oi_delta" -> Latest(events).open_interest

Emit(value) == IF value.none THEN <<>> ELSE <<value.v>>

RECURSIVE Ascending(_, _, _, _)
\* The values of the buckets, earliest bucket first.
Ascending(metric, rows, interval_ms, buckets) ==
    IF buckets = {} THEN <<>>
    ELSE Emit(BucketValue(metric, EventsOf(rows, interval_ms, Earliest(buckets))))
           \o Ascending(metric, rows, interval_ms, buckets \ {Earliest(buckets)})

Change(prev, curr) ==
    IF NumberOf(prev) # 0 /\ NumberOf(curr) # 0
    THEN PyNum(Quot(100000000 * (curr.v - prev.v), prev.v)) ELSE PyNone

RECURSIVE Changes(_, _, _, _)
\* The changes of the level from each bucket to the next one.
Changes(rows, interval_ms, buckets, prev) ==
    IF buckets = {} THEN <<>>
    ELSE Emit(Change(prev, BucketValue("oi_delta", EventsOf(rows, interval_ms, Earliest(buckets)))))
           \o Changes(rows, interval_ms, buckets \ {Earliest(buckets)},
                      BucketValue("oi_delta", EventsOf(rows, interval_ms, Earliest(buckets))))

BucketSeries(metric, rows, interval_ms) ==
    IF metric # "oi_delta" THEN Ascending(metric, rows, interval_ms, BucketsOf(rows, interval_ms))
    ELSE IF rows = {} THEN <<>>
    ELSE Changes(rows, interval_ms,
                 BucketsOf(rows, interval_ms) \ {Earliest(BucketsOf(rows, interval_ms))},
                 BucketValue("oi_delta",
                             EventsOf(rows, interval_ms, Earliest(BucketsOf(rows, interval_ms)))))

ExpectedSeries(metric, a) ==
    BucketSeries(metric, MetricEvents(metric, CallRows(market, a)), interval_ms_of(a.period))

\* C24: each event belongs to the bucket of its floored timestamp; a bucket of
\* cvd, taker_ratio and taker_volume holds the sums of its events and a bucket
\* of oi, oi_delta, funding, depth_ratio and order_imbalance the value of its
\* latest event; the series is in ascending bucket order.
C24_BucketAggregation ==
    /\ HistoryCall => result.values = ExpectedSeries(input.metric, input)
    /\ (AnalyzeCall /\ input.metric = "taker_volume" /\ result.status = "ok") =>
          /\ result.ratio_statistics =
                ratio_statistics(ExpectedSeries("taker_volume_ratio", input),
                                 np_sort(ExpectedSeries("taker_volume_ratio", input)))
          /\ result.volume_statistics =
                volume_statistics(ExpectedSeries("taker_volume_total", input),
                                  np_sort(ExpectedSeries("taker_volume_total", input)))

\* An oi series at 15m with a bucket of three events whose latest value is not
\* the value of the earlier ones.
C24_Witness ==
    /\ HistoryCall
    /\ input.metric = "oi"
    /\ input.period = "15m"
    /\ Len(result.values) >= 2
    /\ \E b \in BucketsOf(CallRows(market, input), 900000) :
          /\ Cardinality(EventsOf(CallRows(market, input), 900000, b)) = 3
          /\ \A r \in EventsOf(CallRows(market, input), 900000, b) :
                ~r.open_interest.none /\
                (r # Latest(EventsOf(CallRows(market, input), 900000, b)) =>
                    r.open_interest # Latest(EventsOf(CallRows(market, input), 900000, b)).open_interest)

-----------------------------------------------------------------------------
(* The config table under repeated migrations, updates and listings *)

\* Lines 156-184: every stored row as a RegimeConfigResponse.
list_regime_configs(table) == {config_response(c) : c \in table}

Migrated == input.op = "migrate"

\* C25: the migration is idempotent: running it again on the table it left
\* changes nothing, the default thresholds included.
C25_MigrateIdempotent == Migrated => migrate(configs) = configs

Updated == input.op = "update_regime_config" /\ result.status = 200

\* C26: after a successful update with {field: v}, v a number (0 included),
\* the returned config and the listing report field = v, the value stored for
\* classify_regime.
C26_ReportedIsStored ==
    Updated =>
        \A f \in DOMAIN input.request :
            ~input.request[f].none =>
                /\ result.body[f] = input.request[f].v
                /\ \A c \in configs : c.id = input.config_id => c[f] = input.request[f].v
                /\ \A r \in list_regime_configs(configs) :
                       r.id = input.config_id => r[f] = input.request[f].v

-----------------------------------------------------------------------------
(* Reason, direction and the config fields the classification reads *)

Directional == Classified /\ result.regime \in {REGIME_BREAKOUT, REGIME_CONTINUATION}

BullishReasons == {"Bullish breakout with aligned signals", "Bullish trend continuation"}
BearishReasons == {"Bearish breakout with aligned signals", "Bearish trend continuation"}

\* C27: with a breakout or continuation classification the direction is never
\* opposite to the side the reason names: it is that side or neutral.
C27_DirectionAgreesWithReason ==
    Directional =>
        /\ result.reason \in BullishReasons \cup BearishReasons
        /\ result.reason \in BullishReasons => result.direction # DIRECTION_BEARISH
        /\ result.reason \in BearishReasons => result.direction # DIRECTION_BULLISH

\* A bearish continuation that the taker flow votes against: neutral.
C27_Witness ==
    /\ Directional
    /\ result.reason = "Bearish trend continuation"
    /\ input.vec.taker_log_ratio > 0
    /\ result.direction = DIRECTION_NEUTRAL

UnusedFields ==
    {"rolling_window", "absorption_cvd_z", "trap_cvd_z", "exhaustion_cvd_z", "noise_cvd_z"}
UnusedValues == {0, 24, 5000}

\* The configs that differ from config in unused fields only: in one of them,
\* or in all of them.
UnusedVariants(config) ==
    {[config EXCEPT ![f] = x] : f \in UnusedFields, x \in UnusedValues}
      \cup {[f \in DOMAIN config |-> IF f \in UnusedFields THEN x ELSE config[f]] :
                x \in UnusedValues}

Outcome(r) == <<r.regime, r.direction, r.confidence>>

\* C28: regime, direction and confidence do not depend on rolling_window,
\* absorption_cvd_z, trap_cvd_z, exhaustion_cvd_z and noise_cvd_z.
C28_UnusedFieldsIgnored ==
    Classified =>
        \A variant \in UnusedVariants(result.config) :
            Outcome(classification(input.vec, variant)) = Outcome(result)

\* An absorption of a flow that is below a variant's absorption_cvd_z.
C28_Witness ==
    /\ Classified
    /\ result.regime = REGIME_ABSORPTION
    /\ \E variant \in UnusedVariants(result.config) :
          /\ variant # result.config
          /\ 10 * Abs(input.vec.cvd_ratio) <= variant.absorption_cvd_z

-----------------------------------------------------------------------------
(* get_market_regime with config ids that are absent, zero, stored and unknown *)

SuppliedIds == {PyNone, PyNum(0), PyNum(1), PyNum(2), PyNum(99)}

ResolveRegime ==
    \E symbol \in Symbols, config_id \in SuppliedIds, timestamp_ms \in CallTimes,
       now \in ClockTimes :
      \E config \in resolve_config(configs, config_id) :
        /\ input = NoCall
        /\ input' = Call("get_market_regime", symbol, "5m", config_id, timestamp_ms, now, config)
        /\ result' = get_market_regime(config, klines, flow, symbol, "5m", timestamp_ms, now)
        /\ UNCHANGED <<market, configs, klines, flow>>

NextResolve == ResolveRegime

SpecResolve == InitRegime /\ [][NextResolve]_vars

RegimeCall == input.op = "get_market_regime"
IdSupplied == RegimeCall /\ ~input.config_id.none
IdStored == \E c \in configs : c.id = input.config_id.v

\* C29: a supplied config_id (any integer) that no config has gives noise with
\* the reason 'No regime config found'; the default config is used only when
\* no config_id is supplied.
C29_SuppliedIdNeverFallsBack ==
    /\ (IdSupplied /\ ~IdStored) => result = Degraded("No regime config found")
    /\ (IdSupplied /\ input.config # {}) => \A c \in input.config : c.id = input.config_id.v

-----------------------------------------------------------------------------
\* C30: every ok result of analyze_metric echoes the request: period is the
\* requested timeframe string and metric the canonical name of the requested
\* metric, for every supported metric and timeframe (taker_volume and 1h
\* included).
C30_ResultEchoesRequest ==
    (AnalyzeCall /\ result.status = "ok") =>
        /\ result.period = input.period
        /\ result.metric = metric_name_map(input.metric)

====
